---- MODULE Spec2Model ----
(***************************************************************************)
(* Briink LangSmith extension: the background service worker (message     *)
(* listener, PDF cache, periodic sweep), the base64 transfer encoding     *)
(* between service worker and sidebar, the multi-tab sidebar (load state   *)
(* machine, tabs, page navigation, zoom, fit to width, configuration       *)
(* notice), the single-document sidebar's loadPdf, the settings popup      *)
(* (load, save, test connection), the content script (sidebar container,   *)
(* navigation, settings changes, the messages it posts to the sidebar) and *)
(* the content script of content/content.ts, whose initialize reads the    *)
(* settings first.                                                         *)
(*                                                                         *)
(* Conventions.                                                            *)
(*  - A JavaScript string is a sequence of chunks, each chunk a TLA+       *)
(*    string: a literal of the source is one chunk, run-time text (a       *)
(*    response body, a header value, base64 output) is one character per   *)
(*    chunk.  A template literal is the concatenation of its parts.        *)
(*  - An ArrayBuffer / Uint8Array is a sequence of integers 0..255.        *)
(*  - Time (Date.now()) is counted in units of 60000 ms.                   *)
(*  - The zoom factor is counted in hundredths: 1.0 is 100.                *)
(*  - null / undefined are the records Null / Undefined where a record is  *)
(*    expected, NoString where a string is, NoFile where a fileId is.      *)
(*  - A page number is an integer, NaN, or UndefinedPage where the         *)
(*    property is absent.                                                  *)
(*  - A message posted to the sidebar's window while the sidebar has no   *)
(*    listener yet is dropped; the others wait in content.inbox.           *)
(***************************************************************************)
EXTENDS Integers, Sequences, FiniteSets, TLC

VARIABLES
    now,          \* Date.now(), in units of 60000 ms
    nextSweep,    \* time at which the setInterval callback is next due
    config,       \* chrome.storage.sync "briinkConfig" (Null when absent)
    pdfCache,     \* service worker: fileId -> cache entry or Null
    req,          \* service worker: one record per delivered message
    files,        \* sidebar: the FileInfo list
    loadedPdfs,   \* sidebar: fileId -> LoadedPdf or Null
    activeFileId, \* sidebar: active tab or NoFile
    currentPage,  \* sidebar: page shown
    totalPages,   \* sidebar: page count of the document shown
    scale,        \* sidebar: zoom factor, in hundredths
    calls,        \* sidebar: fileId -> its fetchPdfForFile invocation
    fetchSent,    \* sidebar: fileId -> number of FETCH_PDF messages sent
    retries,      \* sidebar: fileId -> number of clicks on Retry
    fitPending,   \* sidebar: getPage promises of fitWidth not yet settled
    needsConfig,  \* sidebar: the configuration notice is shown
    singleDoc,    \* single-document sidebar: its $state variables
    loadPdfCalls, \* single-document sidebar: its loadPdf invocations
    popup,        \* popup: its $state variables and suspended functions
    content,      \* content script: its variables and the sidebar container
    notices,      \* storage.onChanged events not yet handled by the content script
    oldContent,   \* content script of content/content.ts: its variables
    buffer,       \* transfer encoding: the ArrayBuffer to send
    wire,         \* transfer encoding: the base64 text on the wire
    received,     \* transfer encoding: the ArrayBuffer rebuilt by the sidebar
    stage         \* transfer encoding: how far the transfer has got

vars == << now, nextSweep, config, pdfCache, req, files, loadedPdfs,
           activeFileId, currentPage, totalPages, scale, calls, fetchSent,
           retries, fitPending, needsConfig, singleDoc, loadPdfCalls, popup, content, notices,
           oldContent, buffer, wire, received, stage >>

swVars      == << now, nextSweep, config, pdfCache, req >>
sidebarVars == << files, loadedPdfs, activeFileId, currentPage, totalPages,
                  scale, calls, fetchSent, retries, fitPending, needsConfig >>
singleVars  == << singleDoc, loadPdfCalls >>
popupVars   == << popup >>
contentVars == << content, notices, oldContent >>
codecVars   == << buffer, wire, received, stage >>

Null      == [null |-> TRUE]
Undefined == [undefined |-> TRUE]

\* The element of a one-element set; { e(x) : x \in { v } } is e(v) with v
\* evaluated once.
Only(S) == CHOOSE x \in S : TRUE

Min(a, b) == IF a < b THEN a ELSE b
Max(a, b) == IF a > b THEN a ELSE b

(***************************************************************************)
(* Base64 transfer encoding                                                *)
(***************************************************************************)

\* The base64 alphabet used by btoa / atob.
Base64Alphabet ==
    << "A","B","C","D","E","F","G","H","I","J","K","L","M","N","O","P",
       "Q","R","S","T","U","V","W","X","Y","Z","a","b","c","d","e","f",
       "g","h","i","j","k","l","m","n","o","p","q","r","s","t","u","v",
       "w","x","y","z","0","1","2","3","4","5","6","7","8","9","+","/" >>

Base64Char(n) == Base64Alphabet[n + 1]

Base64Index(c) == CHOOSE n \in 0..63 : Base64Alphabet[n + 1] = c

IsBase64Char(c) == \E n \in 0..63 : Base64Alphabet[n + 1] = c

\* String.fromCharCode(code): the code unit, modulo 2^16.
FromCharCode(code) == code % 65536

\* Uint8Array element store: the value modulo 2^8.
ToUint8(v) == v % 256

\* btoa throws InvalidCharacterError on a code unit above 255.
BtoaThrows(binary) == \E i \in 1..Len(binary) : binary[i] > 255

\* The base64 text of the first n code units of a binary string: output
\* character k belongs to group (k - 1) \div 4, which encodes up to three
\* code units; a short last group is padded with "=".
Base64Encode(binary, n) ==
    LET unit(j) == IF j <= n THEN binary[j] ELSE 0 IN
    [k \in 1..(4 * ((n + 2) \div 3)) |->
        LET g == (k - 1) \div 4
            a == unit(3 * g + 1)
            b == unit(3 * g + 2)
            c == unit(3 * g + 3)
            inGroup == n - 3 * g
        IN CASE (k - 1) % 4 = 0 -> Base64Char(a \div 4)
             [] (k - 1) % 4 = 1 -> Base64Char((a % 4) * 16 + b \div 16)
             [] (k - 1) % 4 = 2 ->
                  IF inGroup >= 2 THEN Base64Char((b % 16) * 4 + c \div 64)
                  ELSE "="
             [] OTHER ->
                  IF inGroup >= 3 THEN Base64Char(c % 64) ELSE "="]

\* btoa on a binary string given as its char codes.
Btoa(binary) == Base64Encode(binary, Len(binary))

\* The loop of arrayBufferToBase64: binary += String.fromCharCode(bytes[i]).
BinaryString(bytes) == [i \in 1..Len(bytes) |-> FromCharCode(bytes[i])]

arrayBufferToBase64(buf) == Btoa(BinaryString(buf))

arrayBufferToBase64Throws(buf) == BtoaThrows(BinaryString(buf))

\* atob: forgiving-base64 decode (no ASCII whitespace occurs in btoa's
\* output, so the whitespace-stripping step is the identity here).
StripPadding(s) ==
    IF Len(s) % 4 = 0 /\ Len(s) >= 2 /\ s[Len(s)] = "=" /\ s[Len(s) - 1] = "="
        THEN SubSeq(s, 1, Len(s) - 2)
    ELSE IF Len(s) % 4 = 0 /\ Len(s) >= 1 /\ s[Len(s)] = "="
        THEN SubSeq(s, 1, Len(s) - 1)
    ELSE s

\* atob throws InvalidCharacterError on a malformed input.
AtobThrows(base64) ==
    LET s == StripPadding(base64) IN
    \/ Len(s) % 4 = 1
    \/ \E i \in 1..Len(s) : ~IsBase64Char(s[i])

\* The code units decoded from padding-free base64 text: four characters
\* give three units, a last group of two or three characters gives one or
\* two, its unused low bits being discarded.
Base64Decode(s) ==
    LET m == Len(s)
        sextet(j) == IF j <= m THEN Base64Index(s[j]) ELSE 0
        n == 3 * (m \div 4) + (IF m % 4 = 0 THEN 0 ELSE (m % 4) - 1)
    IN
    [k \in 1..n |->
        LET g == (k - 1) \div 3
            p == sextet(4 * g + 1)
            q == sextet(4 * g + 2)
            r == sextet(4 * g + 3)
            t == sextet(4 * g + 4)
        IN CASE (k - 1) % 3 = 0 -> p * 4 + q \div 16
             [] (k - 1) % 3 = 1 -> (q % 16) * 16 + r \div 4
             [] OTHER -> (r % 4) * 64 + t]

Atob(base64) == Base64Decode(StripPadding(base64))

\* Mutant of CharCodes: the code unit is masked to 7 bits.
CharCodesAscii(binaryString) ==
    [i \in 1..Len(binaryString) |-> binaryString[i] % 128]

\* The loop of base64ToArrayBuffer: bytes[i] = binaryString.charCodeAt(i).
CharCodes(binaryString) ==
    [i \in 1..Len(binaryString) |-> ToUint8(binaryString[i])]

base64ToArrayBuffer(base64) == CharCodes(Atob(base64))

base64ToArrayBufferThrows(base64) == AtobThrows(base64)

\* Longest buffer built from SampleBytes for the transfer encoding.
MaxLen == 4

\* Byte values used in the longer buffers: both ends of the range and the
\* values at the 6-bit and 7-bit boundaries.
SampleBytes == {0, 63, 128, 255}

AllBytes == 0..255

RECURSIVE SeqsUpTo(_, _)
SeqsUpTo(S, n) ==
    IF n = 0 THEN { << >> }
    ELSE LET shorter == SeqsUpTo(S, n - 1) IN
         shorter \cup { Append(s, x) : s \in { t \in shorter : Len(t) = n - 1 }, x \in S }

CodecInputs ==
    SeqsUpTo(SampleBytes, MaxLen)
        \cup { << b >> : b \in AllBytes }
        \cup { << b, 255 - b >> : b \in AllBytes }

(***************************************************************************)
(* Strings                                                                 *)
(***************************************************************************)

\* null / undefined where a string is expected.
NoString == << "(undefined)" >>

\* JavaScript truthiness of an optional string: undefined, null and ""
\* are falsy.
Falsy(s) == s = NoString \/ s = << >>

\* String.prototype.includes
Includes(s, sub) ==
    \E i \in 1..(Len(s) - Len(sub) + 1) : SubSeq(s, i, i + Len(sub) - 1) = sub

\* String.prototype.substring(from, to), 0-based, end exclusive
Substring(s, from, to) == SubSeq(s, from + 1, Min(to, Len(s)))

(***************************************************************************)
(* Service worker: settings, remote API, cache                             *)
(***************************************************************************)

\* CACHE_TTL = 5 * 60 * 1000 ms, in units of 60000 ms.
CACHE_TTL == 5

\* The setInterval period, 60000 ms, in units of 60000 ms.
SWEEP_INTERVAL == 1

\* Last clock value explored.
MaxTime == 6

\* Number of messages the listener handles at the same time.
MaxReq == 2

FileIds == {"a", "b"}

NoFile == "(none)"

ApiKey == << "k" >>
BaseUrl == << "https://api.briinkai.com" >>
Workspace == << "w", "s", "1" >>

BriinkConfig(apiKey, workspaceId, enabled) ==
    [apiKey |-> apiKey, apiBaseUrl |-> BaseUrl,
     workspaceId |-> workspaceId, enabled |-> enabled]

\* The settings records the popup can have saved.
SavedConfigs ==
    { BriinkConfig(<< >>, Workspace, TRUE),
      BriinkConfig(ApiKey, Workspace, FALSE),
      BriinkConfig(ApiKey, NoString, TRUE),
      BriinkConfig(ApiKey, Workspace, TRUE) }

Configs == {Null} \cup SavedConfigs

\* getConfig: result.briinkConfig || null, and null when the storage read
\* fails.
getConfig(storageFails) == IF storageFails THEN Null ELSE config

\* Values a promise can reject with.
Thrown ==
    { [isError |-> TRUE, message |-> << "Failed to fetch" >>],
      [isError |-> FALSE, message |-> NoString] }

\* The TypeError of reading a property of an undefined payload.
PayloadTypeError ==
    [isError |-> TRUE,
     message |-> << "Cannot read properties of undefined" >>]

\* err instanceof Error ? err.message : fallback
ErrorMessage(err, fallback) == IF err.isError THEN err.message ELSE fallback

Failure(error) == [success |-> FALSE, error |-> error]

\* Completion of a function body: it returns a value or throws.
Return(value) == [kind |-> "return", value |-> value]
Throw(thrown) == [kind |-> "throw", thrown |-> thrown]

\* Header values and bodies of the remote API.
PdfType == << "a", "p", "p", "l", "i", "c", "a", "t", "i", "o", "n", "/", "p", "d", "f" >>
OctetType == << "a", "p", "p", "l", "i", "c", "a", "t", "i", "o", "n", "/", "o", "c", "t", "e", "t", "-", "s", "t", "r", "e", "a", "m" >>
JsonType == << "a", "p", "p", "l", "i", "c", "a", "t", "i", "o", "n", "/", "j", "s", "o", "n" >>
QuotedDisposition == << "a", ";", " ", "f", "i", "l", "e", "n", "a", "m", "e", "=", "\"", "d", "o", "c", ".", "p", "d", "f", "\"" >>
PlainDisposition == << "f", "i", "l", "e", "n", "a", "m", "e", "=", "b", ".", "p", "d", "f", ";", " ", "x" >>
InlineDisposition == << "i", "n", "l", "i", "n", "e" >>

PdfMagic == << 37, 80, 68, 70 >>
FileBody(fileId) == IF fileId = "a" THEN PdfMagic \o << 10 >>
                    ELSE PdfMagic \o << 255, 0 >>
EmptyBody == << >>
NotFoundText == << "n", "o", "t", " ", "f", "o", "u", "n", "d" >>
JsonText == << "{", "\"", "u", "r", "l", "\"", ":", "\"", "x", "\"", "}" >>

\* A settled fetch(): a Response (its headers, and what reading its body
\* will give) or a rejection.
HttpResponse(status, contentType, contentDisposition, bytes, text, bodyFails) ==
    [kind |-> "response", status |-> status, contentType |-> contentType,
     contentDisposition |-> contentDisposition, bytes |-> bytes,
     text |-> text, bodyFails |-> bodyFails,
     thrown |-> [isError |-> TRUE, message |-> << "Failed to fetch" >>]]

Rejection(thrown) ==
    [kind |-> "reject", status |-> 0, contentType |-> NoString,
     contentDisposition |-> NoString, bytes |-> << >>, text |-> << >>,
     bodyFails |-> FALSE, thrown |-> thrown]

\* What fetch() can settle with for the download of fileId.
FetchOutcomes(fileId) ==
    { HttpResponse(200, PdfType, QuotedDisposition, FileBody(fileId), << >>, FALSE),
      HttpResponse(200, OctetType, PlainDisposition, FileBody(fileId), << >>, FALSE),
      HttpResponse(200, NoString, InlineDisposition, EmptyBody, << >>, FALSE),
      HttpResponse(200, PdfType, NoString, FileBody(fileId), << >>, TRUE),
      HttpResponse(200, JsonType, NoString, << >>, JsonText, FALSE),
      HttpResponse(404, JsonType, NoString, << >>, NotFoundText, FALSE),
      HttpResponse(500, NoString, NoString, << >>, << >>, TRUE) }
        \cup { Rejection(t) : t \in Thrown }

\* The outcomes explored where the sidebar is the sender: a PDF, a 404 and
\* a rejection.
SidebarFetchOutcomes(fileId) ==
    { HttpResponse(200, PdfType, QuotedDisposition, FileBody(fileId), << >>, FALSE),
      HttpResponse(404, JsonType, NoString, << >>, NotFoundText, FALSE),
      Rejection([isError |-> TRUE, message |-> << "Failed to fetch" >>]) }

\* What fetch() can settle with for the /status probe.
ProbeOutcomes ==
    { HttpResponse(200, JsonType, NoString, << >>, JsonText, FALSE),
      HttpResponse(404, JsonType, NoString, << >>, NotFoundText, FALSE),
      HttpResponse(500, NoString, NoString, << >>, << >>, TRUE) }
        \cup { Rejection(t) : t \in Thrown }

\* Response.ok
Ok(response) == response.status >= 200 /\ response.status <= 299

(***************************************************************************)
(* Service worker: testConnection, fetchPdf, fetchPdfWithCache             *)
(***************************************************************************)

\* Mutant of testConnectionTry: response.ok is not tested.
testConnectionTryAnyStatus(outcome) ==
    IF outcome.kind = "reject" THEN Throw(outcome.thrown)
    ELSE Return([success |-> TRUE])

\* The try block of testConnection, given what its fetch() settles with.
testConnectionTry(outcome) ==
    IF outcome.kind = "reject" THEN Throw(outcome.thrown)
    ELSE IF Ok(outcome) THEN Return([success |-> TRUE])
    ELSE IF outcome.bodyFails THEN Throw(outcome.thrown)
    ELSE Return(Failure(<< "API returned ", ToString(outcome.status), ": " >>
                           \o outcome.text))

\* testConnection: the try block and its catch.
testConnection(outcome) ==
    Only({ IF c.kind = "throw"
               THEN Return(Failure(ErrorMessage(c.thrown, << "Connection failed" >>)))
           ELSE c :
           c \in { testConnectionTry(outcome) } })

\* testConnection reads the body only of a non-ok response.
testConnectionReadsBody(outcome) == outcome.kind = "response" /\ ~Ok(outcome)

\* The regular expression /filename="?([^";\n]+)"?/ applied to a header
\* value: the first capture group of the leftmost match, NoString when
\* there is no match.
FilenameKey == << "f", "i", "l", "e", "n", "a", "m", "e", "=" >>
FilenameStop == { "\"", ";", "\n" }

\* Mutant of FilenameStart: the optional opening quote is not consumed.
FilenameStartKeepsQuote(cd, i) == i + Len(FilenameKey)

FilenameStart(cd, i) ==
    LET j == i + Len(FilenameKey) IN
    IF j <= Len(cd) /\ cd[j] = "\"" /\ j + 1 <= Len(cd)
          /\ cd[j + 1] \notin FilenameStop
        THEN j + 1
    ELSE j

FilenameMatchesAt(cd, i) ==
    /\ i + Len(FilenameKey) - 1 <= Len(cd)
    /\ SubSeq(cd, i, i + Len(FilenameKey) - 1) = FilenameKey
    /\ FilenameStart(cd, i) <= Len(cd)
    /\ cd[FilenameStart(cd, i)] \notin FilenameStop

\* The capture group [^";\n]+ from position k: the longest run of
\* characters that are none of the three.
FilenameRun(cd, k) ==
    Only({ IF stops = {} THEN SubSeq(cd, k, Len(cd))
           ELSE SubSeq(cd, k, (CHOOSE e \in stops : \A d \in stops : e <= d) - 1) :
           stops \in { { e \in k..Len(cd) : cd[e] \in FilenameStop } } })

\* The positions where the expression matches.
FilenameMatches(cd) == { i \in 1..Len(cd) : FilenameMatchesAt(cd, i) }

FilenameMatch(cd) ==
    Only({ IF hits = {} THEN NoString
           ELSE Only({ FilenameRun(cd, FilenameStart(cd, first)) :
                       first \in { i \in hits : \A j \in hits : i <= j } }) :
           hits \in { FilenameMatches(cd) } })

\* fetchPdf up to its fetch() call: the workspace check.
fetchPdfNeedsWorkspace(cfg) == Falsy(cfg.workspaceId)

WorkspaceRequired ==
    Failure(<< "Workspace ID is required. Please configure it in extension settings." >>)

\* The request URL of fetchPdf.
fetchPdfUrl(fileId, cfg) ==
    cfg.apiBaseUrl \o << "/workspaces/" >> \o cfg.workspaceId
        \o << "/files/", fileId, "/content" >>

\* Mutant of UnexpectedContentType: only a PDF type is accepted.
UnexpectedContentTypeUnlessPdf(contentType) ==
    /\ ~Falsy(contentType)
    /\ ~Includes(contentType, << "p", "d", "f" >>)

\* The content type test of fetchPdf: a type is declared and contains
\* neither 'pdf' nor 'octet-stream'.
UnexpectedContentType(contentType) ==
    /\ ~Falsy(contentType)
    /\ ~Includes(contentType, << "p", "d", "f" >>)
    /\ ~Includes(contentType, << "o", "c", "t", "e", "t", "-", "s", "t", "r", "e", "a", "m" >>)

\* The try block of fetchPdf from its fetch() on, given what the fetch()
\* settles with.
fetchPdfTry(outcome) ==
    LET contentType == outcome.contentType
        contentDisposition == outcome.contentDisposition
        fileName == IF Falsy(contentDisposition) THEN << "document.pdf" >>
                    ELSE Only({ IF match # NoString THEN match
                                ELSE << "document.pdf" >> :
                                match \in { FilenameMatch(contentDisposition) } })
    IN
    IF outcome.kind = "reject" THEN Throw(outcome.thrown)
    ELSE IF ~Ok(outcome) THEN
        IF outcome.bodyFails THEN Throw(outcome.thrown)
        ELSE Return(Failure(<< "Failed to fetch PDF: ", ToString(outcome.status), " - " >>
                               \o outcome.text))
    ELSE IF UnexpectedContentType(contentType) THEN
        IF outcome.bodyFails THEN Throw(outcome.thrown)
        ELSE Return(Failure(<< "Unexpected content type: " >> \o contentType
                               \o << ". Response: " >>
                               \o Substring(outcome.text, 0, 200)))
    ELSE IF outcome.bodyFails THEN Throw(outcome.thrown)
    ELSE Return([success |-> TRUE, data |-> outcome.bytes, fileName |-> fileName])

\* Mutant of fetchPdf: no catch block.
fetchPdfNoCatch(outcome) == fetchPdfTry(outcome)

\* fetchPdf: the try block and its catch.
fetchPdf(outcome) ==
    Only({ IF c.kind = "throw"
               THEN Return(Failure(ErrorMessage(c.thrown, << "Failed to fetch PDF" >>)))
           ELSE c :
           c \in { fetchPdfTry(outcome) } })

\* An ArrayBuffer is an object: result.data is truthy for every buffer,
\* the empty one included.
HasData(result) == result.success

\* Mutant of CacheHit: the TTL is compared as if it were in seconds.
CacheHitSeconds(fileId) ==
    /\ pdfCache[fileId] # Null
    /\ (now - pdfCache[fileId].timestamp) * 60 < CACHE_TTL

\* Mutant of CacheHit: an entry of age CACHE_TTL is still served.
CacheHitInclusive(fileId) ==
    /\ pdfCache[fileId] # Null
    /\ now - pdfCache[fileId].timestamp <= CACHE_TTL

\* The cache test of fetchPdfWithCache.
CacheHit(fileId) ==
    /\ pdfCache[fileId] # Null
    /\ now - pdfCache[fileId].timestamp < CACHE_TTL

CachedResult(fileId) ==
    [success |-> TRUE, data |-> pdfCache[fileId].data,
     fileName |-> pdfCache[fileId].fileName]

\* Mutant of CachePut: an existing entry is kept.
CachePutIfAbsent(fileId, result) ==
    IF result.success /\ HasData(result) /\ pdfCache[fileId] = Null
        THEN [pdfCache EXCEPT ![fileId] =
                [data |-> result.data, fileName |-> result.fileName,
                 timestamp |-> now]]
    ELSE pdfCache

\* Mutant of CachePut: every result is stored, a failure as an empty
\* document.
CachePutAlways(fileId, result) ==
    [pdfCache EXCEPT ![fileId] =
        [data |-> IF result.success THEN result.data ELSE << >>,
         fileName |-> IF result.success THEN result.fileName
                      ELSE << "document.pdf" >>,
         timestamp |-> now]]

\* pdfCache.set after a fetch: only a successful result is stored.
CachePut(fileId, result) ==
    IF result.success /\ HasData(result)
        THEN [pdfCache EXCEPT ![fileId] =
                [data |-> result.data,
                 fileName |-> IF Falsy(result.fileName) THEN << "document.pdf" >>
                              ELSE result.fileName,
                 timestamp |-> now]]
    ELSE pdfCache

(***************************************************************************)
(* Service worker: the onMessage listener                                  *)
(***************************************************************************)

FetchPdfMessage(fileId) ==
    [type |-> "FETCH_PDF", payload |-> [fileId |-> fileId, page |-> 1]]

\* The messages the sidebar sends.
FetchMessages == { FetchPdfMessage(f) : f \in FileIds }

\* Messages a sender can deliver: the three handled types, the declared
\* but unhandled types, and handled types without a payload.
Messages ==
    FetchMessages
        \cup { [type |-> "FETCH_PDF", payload |-> Undefined],
               [type |-> "GET_CONFIG", payload |-> Undefined],
               [type |-> "TEST_CONNECTION",
                payload |-> [apiKey |-> ApiKey, apiBaseUrl |-> BaseUrl]],
               [type |-> "TEST_CONNECTION", payload |-> Undefined],
               [type |-> "SAVE_CONFIG", payload |-> Undefined],
               [type |-> "OPEN_PDF_VIEWER", payload |-> Undefined] }

Slots == 1..MaxReq

\* A slot no message has been delivered to.  pc: where the handler's
\* async function is suspended; msg: the message; cfg: the settings it
\* read; cached: the pdfCache.get result of its fetchPdfWithCache call;
\* response: the Response of a suspended fetchPdf or testConnection;
\* responses: the sendResponse calls made for this message; netCalls: the
\* fetch() calls it has issued; url: the URL of the last one; caught: the
\* listener's catch block has run.
FreeSlot ==
    [pc |-> "free", msg |-> Undefined, cfg |-> Null, cached |-> Null,
     response |-> Null, responses |-> << >>, netCalls |-> 0,
     url |-> NoString, caught |-> FALSE]

\* Mutant of Respond: a case without its break falls through to default.
RespondFallsThrough(r, response) ==
    [r EXCEPT !.pc = "done", !.response = Null,
              !.responses = @ \o << response, Failure(<< "Unknown message type" >>) >>]

\* sendResponse(response) of the handler r, which then finishes.
Respond(r, response) ==
    [r EXCEPT !.pc = "done", !.responses = Append(@, response),
              !.response = Null]

\* Mutant of ListenerCatch: the catch block only logs the error.
ListenerCatchSilent(r, thrown) ==
    [r EXCEPT !.pc = "done", !.caught = TRUE, !.response = Null]

\* The listener's catch block.
ListenerCatch(r, thrown) ==
    Respond([r EXCEPT !.caught = TRUE],
            Failure(ErrorMessage(thrown, << "Unknown error" >>)))

\* The listener after a function it awaited has completed with c:
\* sendResponse of the value, or the catch block.
Settle(r, c) ==
    IF c.kind = "throw" THEN ListenerCatch(r, c.thrown) ELSE Respond(r, c.value)

\* The listener's conversion of a fetchPdfWithCache completion into the
\* relayed response.
RelayResponse(r, c) ==
    IF c.kind = "throw" THEN ListenerCatch(r, c.thrown)
    ELSE IF c.value.success /\ HasData(c.value) THEN
        IF arrayBufferToBase64Throws(c.value.data)
            THEN ListenerCatch(r, [isError |-> TRUE,
                                   message |-> << "Invalid character" >>])
        ELSE Respond(r, [success |-> TRUE,
                         data |-> arrayBufferToBase64(c.value.data),
                         fileName |-> c.value.fileName])
    ELSE Respond(r, c.value)

\* Mutant of Deliver: the switch has no default case.
DeliverWithoutDefault(free, m) ==
    LET r == [free EXCEPT !.msg = m] IN
    CASE m.type = "GET_CONFIG" -> [r EXCEPT !.pc = "config"]
      [] m.type = "FETCH_PDF" -> [r EXCEPT !.pc = "config"]
      [] m.type = "TEST_CONNECTION" ->
           IF m.payload = Undefined
               THEN ListenerCatch(r, PayloadTypeError)
           ELSE [r EXCEPT !.pc = "probe", !.netCalls = @ + 1,
                          !.url = m.payload.apiBaseUrl \o << "/status" >>]
      [] OTHER -> [r EXCEPT !.pc = "done"]

\* Delivery of message m: the listener runs up to its first await or, for
\* a synchronous path, to its sendResponse.
Deliver(free, m) ==
    LET r == [free EXCEPT !.msg = m] IN
    CASE m.type = "GET_CONFIG" -> [r EXCEPT !.pc = "config"]
      [] m.type = "FETCH_PDF" -> [r EXCEPT !.pc = "config"]
      [] m.type = "TEST_CONNECTION" ->
           IF m.payload = Undefined
               THEN ListenerCatch(r, PayloadTypeError)
           ELSE [r EXCEPT !.pc = "probe", !.netCalls = @ + 1,
                          !.url = m.payload.apiBaseUrl \o << "/status" >>]
      [] OTHER -> Respond(r, Failure(<< "Unknown message type" >>))

\* A message from an extension page or content script reaches the listener
\* in the lowest free slot.
Receive(s, m) ==
    /\ req[s].pc = "free"
    /\ \A t \in Slots : t < s => req[t].pc # "free"
    /\ req' = [req EXCEPT ![s] = Deliver(req[s], m)]
    /\ UNCHANGED << now, nextSweep, config, pdfCache >>
    /\ UNCHANGED sidebarVars
    /\ UNCHANGED singleVars
    /\ UNCHANGED popupVars
    /\ UNCHANGED contentVars
    /\ UNCHANGED codecVars

\* Mutant of FetchPdfCase: a request for a file whose download is already
\* in flight joins that download instead of issuing its own fetch.
FetchPdfCaseJoining(r, cfg) ==
    IF cfg = Null \/ Falsy(cfg.apiKey) THEN
        Respond(r, Failure(<< "API key not configured. Please set up the extension." >>))
    ELSE IF ~cfg.enabled THEN
        Respond(r, Failure(<< "Extension is disabled" >>))
    ELSE IF r.msg.payload = Undefined THEN
        ListenerCatch(r, PayloadTypeError)
    ELSE
        LET fileId == r.msg.payload.fileId
            read == [r EXCEPT !.cached = pdfCache[fileId]]
            inFlight == \E t \in Slots :
                            /\ req[t].pc \in {"fetch", "body"}
                            /\ req[t].msg.type = "FETCH_PDF"
                            /\ req[t].msg.payload.fileId = fileId IN
        IF CacheHit(fileId) THEN
            RelayResponse(read, Return(CachedResult(fileId)))
        ELSE IF fetchPdfNeedsWorkspace(cfg) THEN
            RelayResponse(read, Return(WorkspaceRequired))
        ELSE [read EXCEPT !.pc = "fetch",
                          !.netCalls = IF inFlight THEN @ ELSE @ + 1,
                          !.url = fetchPdfUrl(fileId, cfg)]

\* Mutant of FetchPdfCase: the cache is consulted before the settings are
\* checked.
FetchPdfCaseCacheFirst(r, cfg) ==
    IF r.msg.payload # Undefined /\ CacheHit(r.msg.payload.fileId) THEN
        RelayResponse([r EXCEPT !.cached = pdfCache[r.msg.payload.fileId]],
                      Return(CachedResult(r.msg.payload.fileId)))
    ELSE IF cfg = Null \/ Falsy(cfg.apiKey) THEN
        Respond(r, Failure(<< "API key not configured. Please set up the extension." >>))
    ELSE IF ~cfg.enabled THEN
        Respond(r, Failure(<< "Extension is disabled" >>))
    ELSE IF r.msg.payload = Undefined THEN
        ListenerCatch(r, PayloadTypeError)
    ELSE IF fetchPdfNeedsWorkspace(cfg) THEN
        RelayResponse([r EXCEPT !.cached = pdfCache[r.msg.payload.fileId]],
                      Return(WorkspaceRequired))
    ELSE [r EXCEPT !.pc = "fetch", !.netCalls = @ + 1,
                   !.cached = pdfCache[r.msg.payload.fileId],
                   !.url = fetchPdfUrl(r.msg.payload.fileId, cfg)]

\* Mutant of FetchPdfCase: the workspace id is required before the cache
\* is consulted.
FetchPdfCaseWorkspaceFirst(r, cfg) ==
    IF cfg = Null \/ Falsy(cfg.apiKey) THEN
        Respond(r, Failure(<< "API key not configured. Please set up the extension." >>))
    ELSE IF ~cfg.enabled THEN
        Respond(r, Failure(<< "Extension is disabled" >>))
    ELSE IF r.msg.payload = Undefined THEN
        ListenerCatch(r, PayloadTypeError)
    ELSE
        LET fileId == r.msg.payload.fileId
            read == [r EXCEPT !.cached = pdfCache[fileId]] IN
        IF fetchPdfNeedsWorkspace(cfg) THEN
            RelayResponse(read, Return(WorkspaceRequired))
        ELSE IF CacheHit(fileId) THEN
            RelayResponse(read, Return(CachedResult(fileId)))
        ELSE [read EXCEPT !.pc = "fetch", !.netCalls = @ + 1,
                          !.url = fetchPdfUrl(fileId, cfg)]

\* The FETCH_PDF case from the settled getConfig() up to the next await
\* (the fetch() inside fetchPdf) or to sendResponse.
FetchPdfCase(r, cfg) ==
    IF cfg = Null \/ Falsy(cfg.apiKey) THEN
        Respond(r, Failure(<< "API key not configured. Please set up the extension." >>))
    ELSE IF ~cfg.enabled THEN
        Respond(r, Failure(<< "Extension is disabled" >>))
    ELSE IF r.msg.payload = Undefined THEN
        ListenerCatch(r, PayloadTypeError)
    ELSE
        LET fileId == r.msg.payload.fileId
            read == [r EXCEPT !.cached = pdfCache[fileId]] IN
        IF CacheHit(fileId) THEN
            RelayResponse(read, Return(CachedResult(fileId)))
        ELSE IF fetchPdfNeedsWorkspace(cfg) THEN
            RelayResponse(read, Return(WorkspaceRequired))
        ELSE [read EXCEPT !.pc = "fetch", !.netCalls = @ + 1,
                          !.url = fetchPdfUrl(fileId, cfg)]

\* Mutant of ConfigSettled: getConfig has no catch block, a failed storage
\* read reaches the catch block of the listener.
ConfigSettledRethrowing(s, storageFails) ==
    /\ req[s].pc = "config"
    /\ LET cfg == getConfig(storageFails)
           r == [req[s] EXCEPT !.cfg = cfg] IN
       req' = [req EXCEPT ![s] =
          IF storageFails
              THEN ListenerCatch(r, [isError |-> TRUE,
                                     message |-> << "Storage unavailable" >>])
          ELSE IF r.msg.type = "GET_CONFIG" THEN Respond(r, cfg)
          ELSE FetchPdfCase(r, cfg)]
    /\ UNCHANGED << now, nextSweep, config, pdfCache >>
    /\ UNCHANGED sidebarVars
    /\ UNCHANGED singleVars
    /\ UNCHANGED popupVars
    /\ UNCHANGED contentVars
    /\ UNCHANGED codecVars

\* chrome.storage.sync.get settles for the handler in slot s.
ConfigSettled(s, storageFails) ==
    /\ req[s].pc = "config"
    /\ LET cfg == getConfig(storageFails)
           r == [req[s] EXCEPT !.cfg = cfg] IN
       req' = [req EXCEPT ![s] =
          IF r.msg.type = "GET_CONFIG" THEN Respond(r, cfg)
          ELSE FetchPdfCase(r, cfg)]
    /\ UNCHANGED << now, nextSweep, config, pdfCache >>
    /\ UNCHANGED sidebarVars
    /\ UNCHANGED singleVars
    /\ UNCHANGED popupVars
    /\ UNCHANGED contentVars
    /\ UNCHANGED codecVars

\* Mutant of FetchPdfDone: the result is stored only if the cache still
\* holds what the handler read before its fetch.
FetchPdfDoneUnlessChanged(s, c) ==
    /\ pdfCache' = IF c.kind = "return"
                          /\ pdfCache[req[s].msg.payload.fileId] = req[s].cached
                       THEN CachePut(req[s].msg.payload.fileId, c.value)
                   ELSE pdfCache
    /\ req' = [req EXCEPT ![s] = RelayResponse(req[s], c)]

\* fetchPdf has completed with c: fetchPdfWithCache stores a successful
\* result and the listener relays the completion.
FetchPdfDone(s, c) ==
    /\ pdfCache' = IF c.kind = "return"
                       THEN CachePut(req[s].msg.payload.fileId, c.value)
                   ELSE pdfCache
    /\ req' = [req EXCEPT ![s] = RelayResponse(req[s], c)]

\* The fetch() of fetchPdf settles: with a Response, whose body is read
\* next, or with a rejection.
FetchSettled(s, outcome) ==
    /\ req[s].pc = "fetch"
    /\ IF outcome.kind = "response"
           THEN /\ req' = [req EXCEPT ![s].pc = "body", ![s].response = outcome]
                /\ UNCHANGED pdfCache
       ELSE \E c \in { fetchPdf(outcome) } : FetchPdfDone(s, c)
    /\ UNCHANGED << now, nextSweep, config >>
    /\ UNCHANGED sidebarVars
    /\ UNCHANGED singleVars
    /\ UNCHANGED popupVars
    /\ UNCHANGED contentVars
    /\ UNCHANGED codecVars

\* The fetch() of slot s settles with one of the outcomes the remote API
\* can produce for the requested file.
FetchSettles(s) ==
    /\ req[s].pc = "fetch"
    /\ \E outcome \in FetchOutcomes(req[s].msg.payload.fileId) :
          FetchSettled(s, outcome)

\* response.text() or response.arrayBuffer() of fetchPdf settles.
BodySettled(s) ==
    /\ req[s].pc = "body"
    /\ \E c \in { fetchPdf(req[s].response) } : FetchPdfDone(s, c)
    /\ UNCHANGED << now, nextSweep, config >>
    /\ UNCHANGED sidebarVars
    /\ UNCHANGED singleVars
    /\ UNCHANGED popupVars
    /\ UNCHANGED contentVars
    /\ UNCHANGED codecVars

\* The fetch() of testConnection settles: the function returns, or goes on
\* to read the body of a non-ok Response.
ProbeSettled(s, outcome) ==
    /\ req[s].pc = "probe"
    /\ IF testConnectionReadsBody(outcome)
           THEN req' = [req EXCEPT ![s].pc = "probeBody", ![s].response = outcome]
       ELSE \E c \in { testConnection(outcome) } :
               req' = [req EXCEPT ![s] = Settle(req[s], c)]
    /\ UNCHANGED << now, nextSweep, config, pdfCache >>
    /\ UNCHANGED sidebarVars
    /\ UNCHANGED singleVars
    /\ UNCHANGED popupVars
    /\ UNCHANGED contentVars
    /\ UNCHANGED codecVars

\* response.text() of testConnection settles.
ProbeBodySettled(s) ==
    /\ req[s].pc = "probeBody"
    /\ \E c \in { testConnection(req[s].response) } :
          req' = [req EXCEPT ![s] = Settle(req[s], c)]
    /\ UNCHANGED << now, nextSweep, config, pdfCache >>
    /\ UNCHANGED sidebarVars
    /\ UNCHANGED singleVars
    /\ UNCHANGED popupVars
    /\ UNCHANGED contentVars
    /\ UNCHANGED codecVars

\* The sender's sendMessage promise has resolved with the response: the
\* message channel of slot s is closed.
Release(s) ==
    /\ req[s].pc = "done"
    /\ req' = [req EXCEPT ![s] = FreeSlot]
    /\ UNCHANGED << now, nextSweep, config, pdfCache >>
    /\ UNCHANGED sidebarVars
    /\ UNCHANGED singleVars
    /\ UNCHANGED popupVars
    /\ UNCHANGED contentVars
    /\ UNCHANGED codecVars

\* Mutant of SweepDeletes: an entry is deleted one interval later.
SweepDeletesLate(fileId) ==
    /\ pdfCache[fileId] # Null
    /\ now - pdfCache[fileId].timestamp > CACHE_TTL + SWEEP_INTERVAL

\* The test of the sweep: now - value.timestamp > CACHE_TTL
SweepDeletes(fileId) ==
    /\ pdfCache[fileId] # Null
    /\ now - pdfCache[fileId].timestamp > CACHE_TTL

\* The setInterval callback: delete the entries older than CACHE_TTL.
Sweep ==
    /\ now >= nextSweep
    /\ pdfCache' = [f \in FileIds |->
                      IF SweepDeletes(f) THEN Null ELSE pdfCache[f]]
    /\ nextSweep' = now + SWEEP_INTERVAL
    /\ UNCHANGED << now, config, req >>
    /\ UNCHANGED sidebarVars
    /\ UNCHANGED singleVars
    /\ UNCHANGED popupVars
    /\ UNCHANGED contentVars
    /\ UNCHANGED codecVars

\* Time passes; the timer callback runs when it is due.
Tick ==
    /\ now < MaxTime
    /\ now < nextSweep
    /\ now' = now + 1
    /\ UNCHANGED << nextSweep, config, pdfCache, req >>
    /\ UNCHANGED sidebarVars
    /\ UNCHANGED singleVars
    /\ UNCHANGED popupVars
    /\ UNCHANGED contentVars
    /\ UNCHANGED codecVars

\* Most storage.onChanged events waiting for the content script.
MaxNotices == 1

\* chrome.storage.sync.set({ briinkConfig: c }): the record is replaced as
\* a whole, and a content script that is listening is sent a
\* storage.onChanged event if the value has changed.
StorageSet(c) ==
    /\ config' = c
    /\ notices' = IF (content.listening \/ oldContent.listening) /\ c # config
                      THEN Append(notices, c)
                  ELSE notices

\* A completed saveConfig of the popup whose form values make the record c.
SaveConfig(c) ==
    /\ c # config
    /\ Len(notices) < MaxNotices
    /\ StorageSet(c)
    /\ UNCHANGED << now, nextSweep, pdfCache, req >>
    /\ UNCHANGED sidebarVars
    /\ UNCHANGED singleVars
    /\ UNCHANGED popupVars
    /\ UNCHANGED << content, oldContent >>
    /\ UNCHANGED codecVars

(***************************************************************************)
(* Transfer encoding between service worker and sidebar                    *)
(***************************************************************************)

\* The service worker encodes the buffer for sendResponse.
Encode ==
    /\ stage = "chosen"
    /\ IF arrayBufferToBase64Throws(buffer)
           THEN stage' = "encodeThrew" /\ UNCHANGED wire
       ELSE stage' = "encoded" /\ wire' = arrayBufferToBase64(buffer)
    /\ UNCHANGED << buffer, received >>
    /\ UNCHANGED swVars
    /\ UNCHANGED sidebarVars
    /\ UNCHANGED singleVars
    /\ UNCHANGED popupVars
    /\ UNCHANGED contentVars

\* The sidebar decodes response.data.
Decode ==
    /\ stage = "encoded"
    /\ IF base64ToArrayBufferThrows(wire)
           THEN stage' = "decodeThrew" /\ UNCHANGED received
       ELSE stage' = "decoded" /\ received' = base64ToArrayBuffer(wire)
    /\ UNCHANGED << buffer, wire >>
    /\ UNCHANGED swVars
    /\ UNCHANGED sidebarVars
    /\ UNCHANGED singleVars
    /\ UNCHANGED popupVars
    /\ UNCHANGED contentVars

(***************************************************************************)
(* Sidebar (Sidebar.svelte): file list, load states, retry                 *)
(***************************************************************************)

\* Most clicks on Retry explored per file.
MaxRetries == 1

\* Page numbers the page asks for, page counts pdf.js reports.
Pages == {1, 4}
PageCounts == {3}

FileInfo(fileId, page) ==
    [fileId |-> fileId, fileName |-> << fileId, ".pdf" >>, page |-> page]

FileInfos == { FileInfo(f, p) : f \in FileIds, p \in Pages }

\* The payloads of BRIINK_FILES_LIST: lists of one or two files.
FileLists ==
    { << x >> : x \in FileInfos } \cup { << x, y >> : x, y \in FileInfos }

\* files.find(f => f.fileId === fileId)
InFiles(list, fileId) == \E i \in 1..Len(list) : list[i].fileId = fileId

FindFile(list, fileId) ==
    list[CHOOSE i \in 1..Len(list) :
            /\ list[i].fileId = fileId
            /\ \A j \in 1..(i - 1) : list[j].fileId # fileId]

\* Numbers of the sidebar: the integers, NaN, and a page that is undefined
\* (a LOAD_PDF payload without the property).
NaN == -99
UndefinedPage == -98

\* ToNumber: undefined converts to NaN.
ToNumber(x) == IF x = UndefinedPage THEN NaN ELSE x

\* Math.max and Math.min: NaN when an argument converts to NaN.
MathMax(a, b) ==
    IF ToNumber(a) = NaN \/ ToNumber(b) = NaN THEN NaN ELSE Max(a, b)

MathMin(a, b) ==
    IF ToNumber(a) = NaN \/ ToNumber(b) = NaN THEN NaN ELSE Min(a, b)

\* a + b, a <= b and a >= b on numbers: NaN + b is NaN, a comparison with
\* NaN is false.
Plus(a, b) == IF a = NaN \/ b = NaN THEN NaN ELSE a + b
AtMost(a, b) == a # NaN /\ b # NaN /\ a <= b
AtLeast(a, b) == a # NaN /\ b # NaN /\ a >= b

\* Math.min(Math.max(1, page), totalPages)
ClampPage(page, total) == MathMin(MathMax(1, page), total)

\* The LoadedPdf records fetchPdfForFile stores.
LoadingPdf(file) ==
    [fileId |-> file.fileId, fileName |-> file.fileName,
     initialPage |-> file.page, doc |-> Null, data |-> NoString,
     error |-> NoString, loading |-> TRUE]

FailedPdf(file, message) ==
    [fileId |-> file.fileId, fileName |-> file.fileName,
     initialPage |-> file.page, doc |-> Null, data |-> NoString,
     error |-> message, loading |-> FALSE]

ReadyPdf(file, response, doc) ==
    [fileId |-> file.fileId,
     fileName |-> IF Falsy(response.fileName) THEN file.fileName
                  ELSE response.fileName,
     initialPage |-> file.page, doc |-> doc, data |-> response.data,
     error |-> NoString, loading |-> FALSE]

\* No fetchPdfForFile invocation of the file is suspended.
IdleCall ==
    [pc |-> "idle", caller |-> "none", file |-> Null, slot |-> 0,
     response |-> Null]

\* The state the sidebar's code reads and writes, as one record: its own
\* variables and the service worker's message slots it sends into.
SidebarState ==
    [files |-> files, loadedPdfs |-> loadedPdfs, activeFileId |-> activeFileId,
     currentPage |-> currentPage, totalPages |-> totalPages, scale |-> scale,
     calls |-> calls, fetchSent |-> fetchSent, retries |-> retries,
     fitPending |-> fitPending, needsConfig |-> needsConfig, req |-> req]

Becomes(st) ==
    /\ files' = st.files
    /\ loadedPdfs' = st.loadedPdfs
    /\ activeFileId' = st.activeFileId
    /\ currentPage' = st.currentPage
    /\ totalPages' = st.totalPages
    /\ scale' = st.scale
    /\ calls' = st.calls
    /\ fetchSent' = st.fetchSent
    /\ retries' = st.retries
    /\ fitPending' = st.fitPending
    /\ needsConfig' = st.needsConfig
    /\ req' = st.req

HasFreeSlot(st) == \E s \in Slots : st.req[s].pc = "free"

LowestFreeSlot(st) ==
    CHOOSE s \in Slots :
        st.req[s].pc = "free" /\ \A t \in Slots : t < s => st.req[t].pc # "free"

\* fetchPdfForFile up to its await of chrome.runtime.sendMessage: the entry
\* is set to loading and the FETCH_PDF message is sent.
fetchPdfForFile(st, file, caller) ==
    Only({ [st EXCEPT
              !.loadedPdfs[file.fileId] = LoadingPdf(file),
              !.calls[file.fileId] =
                  [pc |-> "sent", caller |-> caller, file |-> file,
                   slot |-> s, response |-> Null],
              !.fetchSent[file.fileId] = @ + 1,
              !.req[s] = Deliver(st.req[s],
                                 [type |-> "FETCH_PDF",
                                  payload |-> [fileId |-> file.fileId,
                                               page |-> file.page]])] :
           s \in { LowestFreeSlot(st) } })

\* Mutant of ShowLoaded: the entries of the other files are dropped.
ShowLoadedDiscarding(st, fileId, page) ==
    [st EXCEPT !.activeFileId = fileId,
               !.loadedPdfs = [g \in FileIds |->
                                 IF g = fileId \/ st.loadedPdfs[g] = Null
                                        \/ st.loadedPdfs[g].loading
                                     THEN st.loadedPdfs[g]
                                 ELSE LoadingPdf(FindFile(st.files, g))]]

\* "Set as active and go to the specified page" of handleLoadPdf.
ShowLoaded(st, fileId, page) ==
    LET loaded == st.loadedPdfs[fileId] IN
    IF loaded # Null /\ loaded.doc # Null
        THEN [st EXCEPT !.activeFileId = fileId,
                        !.totalPages = loaded.doc.numPages,
                        !.currentPage = ClampPage(page, loaded.doc.numPages)]
    ELSE [st EXCEPT !.activeFileId = fileId]

\* fetchPdfForFile returns: a handleLoadPdf awaiting it goes on at once.
Returned(st, fileId) ==
    LET call == st.calls[fileId]
        ended == [st EXCEPT !.calls[fileId] = IdleCall] IN
    IF call.caller = "loadPdf" THEN ShowLoaded(ended, fileId, call.file.page)
    ELSE ended

\* Mutant of fetchPdfCatch: the catch block records the error and leaves
\* the entry loading.
fetchPdfCatchStillLoading(st, fileId, message) ==
    Returned([st EXCEPT !.loadedPdfs[fileId] =
                           [FailedPdf(st.calls[fileId].file, message)
                               EXCEPT !.loading = TRUE]],
             fileId)

\* Mutant of fetchPdfCatch: the catch block fetches again.
fetchPdfCatchRefetching(st, fileId, message) ==
    IF st.fetchSent[fileId] <= MaxRetries /\ HasFreeSlot(st)
        THEN fetchPdfForFile(st, st.calls[fileId].file, st.calls[fileId].caller)
    ELSE Returned([st EXCEPT !.loadedPdfs[fileId] =
                                FailedPdf(st.calls[fileId].file, message)],
                  fileId)

\* The catch block of fetchPdfForFile.
fetchPdfCatch(st, fileId, message) ==
    Returned([st EXCEPT !.loadedPdfs[fileId] =
                           FailedPdf(st.calls[fileId].file, message)],
             fileId)

\* Mutant of HandleLoadPdf: the file is fetched whether or not it is in
\* the list.
HandleLoadPdfAlwaysFetching(fileId, page) ==
    /\ \E st \in { SidebarState } :
          /\ HasFreeSlot(st)
          /\ calls[fileId].pc = "idle"
          /\ Becomes(fetchPdfForFile(
                [st EXCEPT !.files = Append(@, FileInfo(fileId, page))],
                FileInfo(fileId, page), "loadPdf"))
    /\ UNCHANGED << now, nextSweep, config, pdfCache >>
    /\ UNCHANGED singleVars
    /\ UNCHANGED popupVars
    /\ UNCHANGED contentVars
    /\ UNCHANGED codecVars

\* handleMessage, case LOAD_PDF: handleLoadPdf up to its first await.
HandleLoadPdf(fileId, page) ==
    /\ \E st \in { SidebarState } :
          IF ~InFiles(st.files, fileId)
              THEN /\ HasFreeSlot(st)
                   /\ Becomes(fetchPdfForFile(
                         [st EXCEPT !.files = Append(@, FileInfo(fileId, page))],
                         FileInfo(fileId, page), "loadPdf"))
          ELSE Becomes(ShowLoaded(st, fileId, page))
    /\ UNCHANGED << now, nextSweep, config, pdfCache >>
    /\ UNCHANGED singleVars
    /\ UNCHANGED popupVars
    /\ UNCHANGED contentVars
    /\ UNCHANGED codecVars

\* Mutant of AddFiles: the loop adds and fetches every file of the
\* message, listed or not.
RECURSIVE AddFilesUnfiltered(_, _, _)
AddFilesUnfiltered(st, newFiles, i) ==
    IF i > Len(newFiles) \/ ~HasFreeSlot(st) THEN st
    ELSE AddFilesUnfiltered(
             fetchPdfForFile([st EXCEPT !.files = Append(@, newFiles[i])],
                             newFiles[i], "filesList"),
             newFiles, i + 1)

\* The loop of handleFilesList from element i on.
RECURSIVE AddFiles(_, _, _)
AddFiles(st, newFiles, i) ==
    IF i > Len(newFiles) THEN st
    ELSE IF InFiles(st.files, newFiles[i].fileId)
        THEN AddFiles(st, newFiles, i + 1)
    ELSE AddFiles(fetchPdfForFile([st EXCEPT !.files = Append(@, newFiles[i])],
                                  newFiles[i], "filesList"),
                  newFiles, i + 1)

\* handleMessage, case BRIINK_FILES_LIST.
HandleFilesList(newFiles) ==
    /\ Cardinality({ s \in Slots : req[s].pc = "free" })
          >= Cardinality({ newFiles[i].fileId : i \in 1..Len(newFiles) }
                            \ { files[i].fileId : i \in 1..Len(files) })
    /\ \E st \in { SidebarState } : Becomes(AddFiles(st, newFiles, 1))
    /\ UNCHANGED << now, nextSweep, config, pdfCache >>
    /\ UNCHANGED singleVars
    /\ UNCHANGED popupVars
    /\ UNCHANGED contentVars
    /\ UNCHANGED codecVars

\* A click on the tab of a file.
SelectFile(fileId) ==
    /\ InFiles(files, fileId)
    /\ loadedPdfs[fileId] # Null
    /\ \E st \in { SidebarState } :
          Becomes(ShowLoaded(st, fileId, st.loadedPdfs[fileId].initialPage))
    /\ UNCHANGED << now, nextSweep, config, pdfCache >>
    /\ UNCHANGED singleVars
    /\ UNCHANGED popupVars
    /\ UNCHANGED contentVars
    /\ UNCHANGED codecVars

\* Mutant of RetryShown: the button is rendered for a loaded document too.
RetryShownWithoutError(fileId) ==
    /\ activeFileId = fileId
    /\ loadedPdfs[fileId] # Null
    /\ ~loadedPdfs[fileId].loading

\* The Retry button is rendered for the active file when it is not loading
\* and has an error.
RetryShown(fileId) ==
    /\ activeFileId = fileId
    /\ loadedPdfs[fileId] # Null
    /\ ~loadedPdfs[fileId].loading
    /\ ~Falsy(loadedPdfs[fileId].error)

\* A click on Retry: retryFetch(activeFileId).
RetryFetch(fileId) ==
    /\ RetryShown(fileId)
    /\ retries[fileId] < MaxRetries
    /\ \E st \in { [SidebarState EXCEPT !.retries[fileId] = @ + 1] } :
          IF InFiles(st.files, fileId)
              THEN /\ HasFreeSlot(st)
                   /\ Becomes(fetchPdfForFile(st, FindFile(st.files, fileId),
                                              "retry"))
          ELSE Becomes(st)
    /\ UNCHANGED << now, nextSweep, config, pdfCache >>
    /\ UNCHANGED singleVars
    /\ UNCHANGED popupVars
    /\ UNCHANGED contentVars
    /\ UNCHANGED codecVars

\* What the sendMessage promise settles with once the listener has
\* answered: the response, or a rejection because the channel closed.
Deliveries == { "delivered", "rejected" }

\* The promise can also resolve with undefined, when no listener has
\* called sendResponse for the message.
LoadingDeliveries == Deliveries \cup { "undefined" }

ChannelClosed == << "The message port closed before a response was received." >>

\* fetchPdfForFile from the settled sendMessage to its next await or to its
\* return.
ResponseArrives(fileId, delivery) ==
    /\ calls[fileId].pc = "sent"
    /\ req[calls[fileId].slot].pc = "done"
    /\ \E st \in { [SidebarState EXCEPT !.req[calls[fileId].slot] = FreeSlot] } :
       \E answers \in { req[calls[fileId].slot].responses } :
          IF delivery = "rejected"
              THEN Becomes(fetchPdfCatch(st, fileId, ChannelClosed))
          ELSE IF delivery = "undefined" \/ answers = << >>
              THEN Becomes(fetchPdfCatch(st, fileId, PayloadTypeError.message))
          ELSE IF ~answers[1].success
              THEN Becomes(fetchPdfCatch(st, fileId,
                      IF Falsy(answers[1].error) THEN << "Failed to fetch PDF" >>
                      ELSE answers[1].error))
          ELSE IF base64ToArrayBufferThrows(answers[1].data)
              THEN Becomes(fetchPdfCatch(st, fileId, << "Invalid character" >>))
          ELSE Becomes([st EXCEPT !.calls[fileId].pc = "decode",
                                  !.calls[fileId].slot = 0,
                                  !.calls[fileId].response = answers[1]])
    /\ UNCHANGED << now, nextSweep, config, pdfCache >>
    /\ UNCHANGED singleVars
    /\ UNCHANGED popupVars
    /\ UNCHANGED contentVars
    /\ UNCHANGED codecVars

\* What pdfjsLib.getDocument(...).promise settles with: a document, or a
\* rejection.
DecodeOutcomes ==
    { [ok |-> TRUE, doc |-> [numPages |-> n], message |-> NoString] :
          n \in PageCounts }
    \cup { [ok |-> FALSE, doc |-> Null, message |-> << "Invalid PDF structure." >>] }

\* Mutant of FirstOrActive: only the active file is rendered on load.
FirstOrActiveOnlyActive(st, fileId) == st.activeFileId = fileId

\* "If this is the first file or the active one": !activeFileId ||
\* activeFileId === fileId
FirstOrActive(st, fileId) ==
    st.activeFileId = NoFile \/ st.activeFileId = fileId

\* fetchPdfForFile from the settled getDocument to its await of renderPage
\* or to its return.
DecodeSettles(fileId, outcome) ==
    /\ calls[fileId].pc = "decode"
    /\ \E st \in { SidebarState } :
          IF ~outcome.ok
              THEN Becomes(fetchPdfCatch(st, fileId, outcome.message))
          ELSE \E ready \in { [st EXCEPT !.loadedPdfs[fileId] =
                                 ReadyPdf(st.calls[fileId].file,
                                          st.calls[fileId].response,
                                          outcome.doc)] } :
               IF FirstOrActive(ready, fileId)
                   THEN Becomes([ready EXCEPT
                           !.activeFileId = fileId,
                           !.totalPages = outcome.doc.numPages,
                           !.currentPage =
                               ClampPage(st.calls[fileId].file.page,
                                         outcome.doc.numPages),
                           !.calls[fileId].pc = "render",
                           !.calls[fileId].response = Null])
               ELSE Becomes(Returned(ready, fileId))
    /\ UNCHANGED << now, nextSweep, config, pdfCache >>
    /\ UNCHANGED singleVars
    /\ UNCHANGED popupVars
    /\ UNCHANGED contentVars
    /\ UNCHANGED codecVars

\* The renderPage awaited by fetchPdfForFile settles (it catches its own
\* errors), and fetchPdfForFile returns.
RenderSettles(fileId) ==
    /\ calls[fileId].pc = "render"
    /\ \E st \in { SidebarState } : Becomes(Returned(st, fileId))
    /\ UNCHANGED << now, nextSweep, config, pdfCache >>
    /\ UNCHANGED singleVars
    /\ UNCHANGED popupVars
    /\ UNCHANGED contentVars
    /\ UNCHANGED codecVars

\* The toolbar (page buttons, page input, zoom buttons) is rendered when
\* the active file is neither loading nor failed and has a document.
ToolbarShown ==
    /\ files # << >>
    /\ activeFileId # NoFile
    /\ loadedPdfs[activeFileId] # Null
    /\ ~loadedPdfs[activeFileId].loading
    /\ Falsy(loadedPdfs[activeFileId].error)
    /\ loadedPdfs[activeFileId].doc # Null

\* Mutant of goToPage: the page is not clamped from above.
goToPageUnclampedAbove(st, pageNum) ==
    IF st.activeFileId = NoFile THEN st
    ELSE IF st.loadedPdfs[st.activeFileId] = Null
            \/ st.loadedPdfs[st.activeFileId].doc = Null THEN st
    ELSE [st EXCEPT !.currentPage = Max(1, pageNum)]

\* goToPage (the renderPage it starts changes no state of the model).
goToPage(st, pageNum) ==
    IF st.activeFileId = NoFile THEN st
    ELSE IF st.loadedPdfs[st.activeFileId] = Null
            \/ st.loadedPdfs[st.activeFileId].doc = Null THEN st
    ELSE [st EXCEPT !.currentPage = ClampPage(pageNum, st.totalPages)]

\* A click on the previous-page button, which is disabled on page 1.
PrevPage ==
    /\ ToolbarShown
    /\ ~AtMost(currentPage, 1)
    /\ \E st \in { SidebarState } : Becomes(goToPage(st, Plus(st.currentPage, -1)))
    /\ UNCHANGED << now, nextSweep, config, pdfCache >>
    /\ UNCHANGED singleVars
    /\ UNCHANGED popupVars
    /\ UNCHANGED contentVars
    /\ UNCHANGED codecVars

\* A click on the next-page button, which is disabled on the last page.
NextPage ==
    /\ ToolbarShown
    /\ ~AtLeast(currentPage, totalPages)
    /\ \E st \in { SidebarState } : Becomes(goToPage(st, Plus(st.currentPage, 1)))
    /\ UNCHANGED << now, nextSweep, config, pdfCache >>
    /\ UNCHANGED singleVars
    /\ UNCHANGED popupVars
    /\ UNCHANGED contentVars
    /\ UNCHANGED codecVars

\* Numbers typed into the page input (parseInt gave a number).
PageInputs == -1..5

\* handlePageInput with an input value that parses to pageNum.
HandlePageInput(pageNum) ==
    /\ ToolbarShown
    /\ \E st \in { SidebarState } : Becomes(goToPage(st, pageNum))
    /\ UNCHANGED << now, nextSweep, config, pdfCache >>
    /\ UNCHANGED singleVars
    /\ UNCHANGED popupVars
    /\ UNCHANGED contentVars
    /\ UNCHANGED codecVars

\* Mutant of zoomIn: no upper limit.
zoomInUnlimited(st) == [st EXCEPT !.scale = @ + 25]

\* zoomIn: scale = Math.min(scale + 0.25, 3.0)
zoomIn(st) == [st EXCEPT !.scale = Min(@ + 25, 300)]

\* zoomOut: scale = Math.max(scale - 0.25, 0.5)
zoomOut(st) == [st EXCEPT !.scale = Max(@ - 25, 50)]

\* A click on the zoom-in button.
ZoomIn ==
    /\ ToolbarShown
    /\ \E st \in { SidebarState } : Becomes(zoomIn(st))
    /\ UNCHANGED << now, nextSweep, config, pdfCache >>
    /\ UNCHANGED singleVars
    /\ UNCHANGED popupVars
    /\ UNCHANGED contentVars
    /\ UNCHANGED codecVars

\* A click on the zoom-out button.
ZoomOut ==
    /\ ToolbarShown
    /\ \E st \in { SidebarState } : Becomes(zoomOut(st))
    /\ UNCHANGED << now, nextSweep, config, pdfCache >>
    /\ UNCHANGED singleVars
    /\ UNCHANGED popupVars
    /\ UNCHANGED contentVars
    /\ UNCHANGED codecVars

\* Most fitWidth calls awaiting their page at a time.
MaxFits == 1

\* canvasContainer.clientWidth and the width of the page's viewport at
\* scale 1.0, in CSS pixels.
ContainerWidths == { 20, 82, 432, 732 }
NativeWidths == { 100, 200 }

\* Mutant of fitScale: the quotient is clamped to the range of the zoom
\* buttons.
fitScaleClamped(clientWidth, nativeWidth) ==
    Min(Max(((clientWidth - 32) * 100) \div nativeWidth, 50), 300)

\* containerWidth / viewport.width with containerWidth = clientWidth - 32,
\* in hundredths (the widths explored give whole hundredths).
fitScale(clientWidth, nativeWidth) ==
    ((clientWidth - 32) * 100) \div nativeWidth

\* A click on the fit-width button: fitWidth up to the then() of
\* loaded.doc.getPage(currentPage), which rejects for a page that is not
\* one of the document's.
FitWidthClick ==
    /\ ToolbarShown
    /\ fitPending < MaxFits
    /\ AtLeast(currentPage, 1) /\ AtMost(currentPage, totalPages)
    /\ \E st \in { SidebarState } :
          Becomes([st EXCEPT !.fitPending = @ + 1])
    /\ UNCHANGED << now, nextSweep, config, pdfCache >>
    /\ UNCHANGED singleVars
    /\ UNCHANGED popupVars
    /\ UNCHANGED contentVars
    /\ UNCHANGED codecVars

\* The getPage promise of fitWidth is fulfilled: the callback assigns the
\* scale.
FitWidthSettles(clientWidth, nativeWidth) ==
    /\ fitPending > 0
    /\ \E st \in { SidebarState } :
          Becomes([st EXCEPT !.fitPending = @ - 1,
                             !.scale = fitScale(clientWidth, nativeWidth)])
    /\ UNCHANGED << now, nextSweep, config, pdfCache >>
    /\ UNCHANGED singleVars
    /\ UNCHANGED popupVars
    /\ UNCHANGED contentVars
    /\ UNCHANGED codecVars

(***************************************************************************)
(* Single-document sidebar: loadPdf                                        *)
(***************************************************************************)

\* Most loadPdf invocations suspended at a time.
MaxLoads == 2

Loads == 1..MaxLoads

\* No loadPdf invocation in this place.
NoLoad ==
    [pc |-> "idle", fileId |-> NoFile, page |-> 0, slot |-> 0,
     response |-> Null]

\* The catch and finally blocks of loadPdf.
loadPdfCatch(doc, message) ==
    [doc EXCEPT !.error = message, !.pdfDoc = Null, !.isLoading = FALSE]

\* handleMessage, LOAD_PDF: loadPdf up to its await of
\* chrome.runtime.sendMessage.
LoadPdf(fileId, page) ==
    /\ \E i \in Loads, s \in Slots :
          /\ loadPdfCalls[i].pc = "idle"
          /\ \A j \in Loads : j < i => loadPdfCalls[j].pc # "idle"
          /\ req[s].pc = "free"
          /\ \A t \in Slots : t < s => req[t].pc # "free"
          /\ loadPdfCalls' = [loadPdfCalls EXCEPT ![i] =
                [pc |-> "sent", fileId |-> fileId, page |-> page, slot |-> s,
                 response |-> Null]]
          /\ req' = [req EXCEPT ![s] =
                Deliver(req[s], [type |-> "FETCH_PDF",
                                 payload |-> [fileId |-> fileId, page |-> page]])]
    /\ singleDoc' = [singleDoc EXCEPT !.isLoading = TRUE,
                                      !.error = NoString,
                                      !.fileName = FileInfo(fileId, page).fileName,
                                      !.currentFileId = fileId]
    /\ UNCHANGED << now, nextSweep, config, pdfCache >>
    /\ UNCHANGED sidebarVars
    /\ UNCHANGED popupVars
    /\ UNCHANGED contentVars
    /\ UNCHANGED codecVars

\* loadPdf from the settled sendMessage to its await of getDocument, or
\* through its catch block to its end.
LoadResponseArrives(i, delivery) ==
    /\ loadPdfCalls[i].pc = "sent"
    /\ req[loadPdfCalls[i].slot].pc = "done"
    /\ req' = [req EXCEPT ![loadPdfCalls[i].slot] = FreeSlot]
    /\ \E answers \in { req[loadPdfCalls[i].slot].responses } :
       \E failure \in {
             IF delivery = "rejected" THEN ChannelClosed
             ELSE IF answers = << >> THEN PayloadTypeError.message
             ELSE IF ~answers[1].success
                 THEN (IF Falsy(answers[1].error) THEN << "Failed to fetch PDF" >>
                       ELSE answers[1].error)
             ELSE IF base64ToArrayBufferThrows(answers[1].data)
                 THEN << "Invalid character" >>
             ELSE NoString } :
          IF failure # NoString
              THEN /\ singleDoc' = loadPdfCatch(singleDoc, failure)
                   /\ loadPdfCalls' = [loadPdfCalls EXCEPT ![i] = NoLoad]
          ELSE /\ loadPdfCalls' = [loadPdfCalls EXCEPT
                                     ![i].pc = "decode", ![i].slot = 0,
                                     ![i].response = answers[1]]
               /\ UNCHANGED singleDoc
    /\ UNCHANGED << now, nextSweep, config, pdfCache >>
    /\ UNCHANGED sidebarVars
    /\ UNCHANGED popupVars
    /\ UNCHANGED contentVars
    /\ UNCHANGED codecVars

\* loadPdf from the settled getDocument to its await of renderPage, or
\* through its catch block to its end.  A document is the page count and
\* the bytes it was decoded from.
LoadDecodeSettles(i, outcome) ==
    /\ loadPdfCalls[i].pc = "decode"
    /\ IF ~outcome.ok
           THEN /\ singleDoc' = loadPdfCatch(singleDoc, outcome.message)
                /\ loadPdfCalls' = [loadPdfCalls EXCEPT ![i] = NoLoad]
       ELSE /\ singleDoc' = [singleDoc EXCEPT
                  !.pdfDoc = [numPages |-> outcome.doc.numPages,
                              data |-> base64ToArrayBuffer(
                                           loadPdfCalls[i].response.data)],
                  !.totalPages = outcome.doc.numPages,
                  !.currentPage = ClampPage(loadPdfCalls[i].page,
                                            outcome.doc.numPages)]
            /\ loadPdfCalls' = [loadPdfCalls EXCEPT ![i].pc = "render"]
    /\ UNCHANGED swVars
    /\ UNCHANGED sidebarVars
    /\ UNCHANGED popupVars
    /\ UNCHANGED contentVars
    /\ UNCHANGED codecVars

\* The renderPage awaited by loadPdf settles, having caught its own error
\* if rendering failed, and loadPdf runs to its end.
LoadRenderSettles(i, renderFails) ==
    /\ loadPdfCalls[i].pc = "render"
    /\ singleDoc' = [singleDoc EXCEPT
          !.error = IF renderFails THEN << "Failed to render page" >> ELSE @,
          !.fileName = IF Falsy(loadPdfCalls[i].response.fileName) THEN @
                       ELSE loadPdfCalls[i].response.fileName,
          !.isLoading = FALSE]
    /\ loadPdfCalls' = [loadPdfCalls EXCEPT ![i] = NoLoad]
    /\ UNCHANGED swVars
    /\ UNCHANGED sidebarVars
    /\ UNCHANGED popupVars
    /\ UNCHANGED contentVars
    /\ UNCHANGED codecVars

(***************************************************************************)
(* Popup: the settings form, saveConfig, testConnection                    *)
(***************************************************************************)

\* Most "clear status" timers pending at a time.
MaxTimers == 1

\* Values typed into the API key and workspace id inputs.
ApiKeyInputs == { << >>, ApiKey }
WorkspaceInputs == { << >>, Workspace }

Status(type, message) == [type |-> type, message |-> message]

\* The popup is not open.
PopupClosed ==
    [pc |-> "closed", apiKey |-> << >>, apiBaseUrl |-> BaseUrl,
     workspaceId |-> << >>, enabled |-> TRUE, status |-> Null,
     isLoading |-> FALSE, isTesting |-> FALSE, saving |-> Null,
     testSlot |-> 0, timers |-> 0]

\* The $state declarations of the popup, loadConfig being suspended at its
\* storage read.
PopupMounted == [PopupClosed EXCEPT !.pc = "loadConfig"]

\* The toolbar icon is clicked: the popup is mounted and its $effect calls
\* loadConfig.
OpenPopup ==
    /\ popup.pc = "closed"
    /\ popup' = PopupMounted
    /\ UNCHANGED swVars
    /\ UNCHANGED sidebarVars
    /\ UNCHANGED singleVars
    /\ UNCHANGED contentVars
    /\ UNCHANGED codecVars

\* value || fallback for a string.
OrElse(value, fallback) == IF Falsy(value) THEN fallback ELSE value

\* The storage read of loadConfig settles.
LoadConfigSettled(storageFails) ==
    /\ popup.pc = "loadConfig"
    /\ popup' = IF storageFails \/ config = Null THEN [popup EXCEPT !.pc = "open"]
                ELSE [popup EXCEPT !.pc = "open",
                                   !.apiKey = OrElse(config.apiKey, << >>),
                                   !.apiBaseUrl = OrElse(config.apiBaseUrl, BaseUrl),
                                   !.workspaceId = OrElse(config.workspaceId, << >>),
                                   !.enabled = config.enabled]
    /\ UNCHANGED swVars
    /\ UNCHANGED sidebarVars
    /\ UNCHANGED singleVars
    /\ UNCHANGED contentVars
    /\ UNCHANGED codecVars

\* The user changes the inputs bound to apiKey, workspaceId and enabled.
EditForm(apiKey, workspaceId, enabled) ==
    /\ popup.pc # "closed"
    /\ popup' = [popup EXCEPT !.apiKey = apiKey, !.workspaceId = workspaceId,
                              !.enabled = enabled]
    /\ popup' # popup
    /\ UNCHANGED swVars
    /\ UNCHANGED sidebarVars
    /\ UNCHANGED singleVars
    /\ UNCHANGED contentVars
    /\ UNCHANGED codecVars

\* The record saveConfig builds: workspaceId || undefined
FormConfig(form) ==
    [apiKey |-> form.apiKey, apiBaseUrl |-> form.apiBaseUrl,
     workspaceId |-> OrElse(form.workspaceId, NoString),
     enabled |-> form.enabled]

\* A click on Save Settings (disabled while isLoading): saveConfig up to
\* its await of chrome.storage.sync.set.
SaveClick ==
    /\ popup.pc # "closed"
    /\ ~popup.isLoading
    /\ popup.timers < MaxTimers
    /\ popup' = [popup EXCEPT !.isLoading = TRUE, !.status = Null,
                              !.saving = FormConfig(popup)]
    /\ UNCHANGED swVars
    /\ UNCHANGED sidebarVars
    /\ UNCHANGED singleVars
    /\ UNCHANGED contentVars
    /\ UNCHANGED codecVars

\* Mutant of SaveSettled: a rejected write has stored the API key.
SaveSettledPartly(ok) ==
    /\ popup.saving # Null
    /\ IF ok THEN
           /\ StorageSet(popup.saving)
           /\ popup' = [popup EXCEPT
                  !.status = Status("success", << "Settings saved successfully!" >>),
                  !.timers = @ + 1, !.isLoading = FALSE, !.saving = Null]
       ELSE
           /\ config' = IF config = Null THEN popup.saving
                        ELSE [config EXCEPT !.apiKey = popup.saving.apiKey]
           /\ popup' = [popup EXCEPT
                  !.status = Status("error", << "Failed to save settings" >>),
                  !.isLoading = FALSE, !.saving = Null]
           /\ UNCHANGED notices
    /\ UNCHANGED << now, nextSweep, pdfCache, req >>
    /\ UNCHANGED sidebarVars
    /\ UNCHANGED singleVars
    /\ UNCHANGED << content, oldContent >>
    /\ UNCHANGED codecVars

\* chrome.storage.sync.set settles: saveConfig from its await to its end.
SaveSettled(ok) ==
    /\ popup.saving # Null
    /\ IF ok THEN
           /\ StorageSet(popup.saving)
           /\ popup' = [popup EXCEPT
                  !.status = Status("success", << "Settings saved successfully!" >>),
                  !.timers = @ + 1, !.isLoading = FALSE, !.saving = Null]
       ELSE
           /\ popup' = [popup EXCEPT
                  !.status = Status("error", << "Failed to save settings" >>),
                  !.isLoading = FALSE, !.saving = Null]
           /\ UNCHANGED << config, notices >>
    /\ UNCHANGED << now, nextSweep, pdfCache, req >>
    /\ UNCHANGED sidebarVars
    /\ UNCHANGED singleVars
    /\ UNCHANGED << content, oldContent >>
    /\ UNCHANGED codecVars

\* The setTimeout callback of saveConfig, 3 seconds after a save.
StatusTimeout ==
    /\ popup.timers > 0
    /\ popup' = [popup EXCEPT !.status = Null, !.timers = @ - 1]
    /\ UNCHANGED swVars
    /\ UNCHANGED sidebarVars
    /\ UNCHANGED singleVars
    /\ UNCHANGED contentVars
    /\ UNCHANGED codecVars

\* A click on Test Connection (disabled while isTesting or without an API
\* key): the popup's testConnection up to its await of sendMessage.
TestClick ==
    /\ popup.pc # "closed"
    /\ ~(popup.isTesting \/ Falsy(popup.apiKey))
    /\ \E s \in Slots :
          /\ req[s].pc = "free"
          /\ \A t \in Slots : t < s => req[t].pc # "free"
          /\ req' = [req EXCEPT ![s] =
                Deliver(req[s], [type |-> "TEST_CONNECTION",
                                 payload |-> [apiKey |-> popup.apiKey,
                                              apiBaseUrl |-> popup.apiBaseUrl]])]
          /\ popup' = [popup EXCEPT
                 !.isTesting = TRUE,
                 !.status = Status("info", << "Testing connection..." >>),
                 !.testSlot = s]
    /\ UNCHANGED << now, nextSweep, config, pdfCache >>
    /\ UNCHANGED sidebarVars
    /\ UNCHANGED singleVars
    /\ UNCHANGED contentVars
    /\ UNCHANGED codecVars

\* The status the popup's testConnection shows for what its sendMessage
\* settled with.
TestStatus(delivery, answers) ==
    IF delivery = "rejected" \/ answers = << >>
        THEN Status("error", << "Failed to test connection" >>)
    ELSE IF answers[1].success
        THEN Status("success", << "Connection successful!" >>)
    ELSE Status("error", OrElse(answers[1].error, << "Connection failed" >>))

\* The popup's testConnection from the settled sendMessage to its end.
TestResponseArrives(delivery) ==
    /\ popup.testSlot # 0
    /\ req[popup.testSlot].pc = "done"
    /\ req' = [req EXCEPT ![popup.testSlot] = FreeSlot]
    /\ popup' = [popup EXCEPT
           !.status = TestStatus(delivery, req[popup.testSlot].responses),
           !.isTesting = FALSE, !.testSlot = 0]
    /\ UNCHANGED << now, nextSweep, config, pdfCache >>
    /\ UNCHANGED sidebarVars
    /\ UNCHANGED singleVars
    /\ UNCHANGED contentVars
    /\ UNCHANGED codecVars

(***************************************************************************)
(* Content script: initialize, the sidebar container, settings changes     *)
(***************************************************************************)

\* No tab runs the content script.  listening: the script has run and its
\* storage.onChanged listener is registered; onQueuePage: the result of
\* isAnnotationQueuePage() for the current URL; urlChanged: the URL differs
\* from lastUrl of observePageChanges; container: sidebarContainer is not
\* null; hidden, closed: its classes; slot: the GET_CONFIG of a suspended
\* initialize; configMessage: SHOW_CONFIG_MESSAGE was posted to the
\* sidebar; lastEnabled: what the last event handled said of enabled;
\* domPending: initialize is registered for DOMContentLoaded, which has not
\* fired yet; created, listeners, observers: how often createSidebar,
\* setupMessageListeners and observePageChanges have run; mounted: the
\* sidebar in the iframe has run onMount; ready: its BRIINK_SIDEBAR_READY is
\* on its way to the page; inbox: the messages posted to the iframe that
\* its listener has not handled yet.
ContentUnloaded ==
    [listening |-> FALSE, onQueuePage |-> FALSE, urlChanged |-> FALSE,
     isInitialized |-> FALSE, container |-> FALSE, hidden |-> FALSE,
     closed |-> FALSE, collectedFiles |-> << >>, slot |-> 0,
     configMessage |-> FALSE, lastEnabled |-> "none", domPending |-> FALSE,
     created |-> 0, listeners |-> 0, observers |-> 0,
     mounted |-> FALSE, ready |-> FALSE, inbox |-> << >>]

\* The messages the content script posts to the sidebar.
LoadPdfMessage(file) ==
    [type |-> "LOAD_PDF", file |-> file, files |-> << >>]

FilesListMessage(list) ==
    [type |-> "BRIINK_FILES_LIST", file |-> Null, files |-> list]

ShowConfigMessage ==
    [type |-> "SHOW_CONFIG_MESSAGE", file |-> Null, files |-> << >>]

\* Number of messages to the sidebar that wait for its listener.
MaxInbox == 2

\* notifySidebar: postMessage to the iframe's window.  A message posted
\* before the sidebar has added its listener is dispatched to no one.
notifySidebar(c, m) ==
    IF c.mounted THEN [c EXCEPT !.inbox = Append(@, m)] ELSE c

\* The state initialize reads and writes: the content script's and the
\* service worker's message slots.
ContentState == [content |-> content, req |-> req]

\* Mutant of initialize: without the isInitialized test.
initializeUnguarded(st) ==
    IF ~st.content.onQueuePage THEN st
    ELSE Only({ [st EXCEPT
                   !.content = [@ EXCEPT !.container = TRUE, !.hidden = FALSE,
                                         !.closed = FALSE, !.urlChanged = FALSE,
                                         !.created = @ + 1, !.listeners = @ + 1,
                                         !.observers = @ + 1,
                                         !.isInitialized = TRUE, !.slot = s],
                   !.req[s] = Deliver(st.req[s], [type |-> "GET_CONFIG",
                                                  payload |-> Undefined])] :
                s \in { LowestFreeSlot(st) } })

\* initialize up to its await of the GET_CONFIG response.
initialize(st) ==
    IF st.content.isInitialized THEN st
    ELSE IF ~st.content.onQueuePage THEN st
    ELSE Only({ [st EXCEPT
                   !.content = [@ EXCEPT !.container = TRUE, !.hidden = FALSE,
                                         !.closed = FALSE, !.urlChanged = FALSE,
                                         !.created = @ + 1, !.listeners = @ + 1,
                                         !.observers = @ + 1,
                                         !.isInitialized = TRUE, !.slot = s],
                   !.req[s] = Deliver(st.req[s], [type |-> "GET_CONFIG",
                                                  payload |-> Undefined])] :
                s \in { LowestFreeSlot(st) } })

\* initialize sends GET_CONFIG: a message slot must be free.
CanInitialize(st) ==
    (~st.content.isInitialized /\ st.content.onQueuePage) => HasFreeSlot(st)

\* A LangSmith page is loaded: the content script runs, registers its
\* storage.onChanged listener and calls initialize.
ContentLoads(onQueue) ==
    /\ ~content.listening
    /\ \E st \in { [ContentState EXCEPT !.content.listening = TRUE,
                                        !.content.onQueuePage = onQueue] } :
          /\ CanInitialize(st)
          /\ \E after \in { initialize(st) } :
                content' = after.content /\ req' = after.req
    /\ UNCHANGED << now, nextSweep, config, pdfCache, notices >>
    /\ UNCHANGED sidebarVars
    /\ UNCHANGED singleVars
    /\ UNCHANGED popupVars
    /\ UNCHANGED oldContent
    /\ UNCHANGED codecVars

\* The content script runs while the document is still loading: it
\* registers its storage.onChanged listener and leaves initialize to the
\* DOMContentLoaded event.
ContentLoadsEarly(onQueue) ==
    /\ ~content.listening
    /\ content' = [content EXCEPT !.listening = TRUE, !.onQueuePage = onQueue,
                                  !.domPending = TRUE]
    /\ UNCHANGED swVars
    /\ UNCHANGED notices
    /\ UNCHANGED sidebarVars
    /\ UNCHANGED singleVars
    /\ UNCHANGED popupVars
    /\ UNCHANGED oldContent
    /\ UNCHANGED codecVars

\* DOMContentLoaded fires: initialize.
DomContentLoaded ==
    /\ content.domPending
    /\ \E st \in { [ContentState EXCEPT !.content.domPending = FALSE] } :
          /\ CanInitialize(st)
          /\ \E after \in { initialize(st) } :
                content' = after.content /\ req' = after.req
    /\ UNCHANGED << now, nextSweep, config, pdfCache, notices >>
    /\ UNCHANGED sidebarVars
    /\ UNCHANGED singleVars
    /\ UNCHANGED popupVars
    /\ UNCHANGED oldContent
    /\ UNCHANGED codecVars

\* !config?.enabled || !config?.apiKey for the GET_CONFIG response.
NeedsConfig(answers) ==
    \/ answers = << >>
    \/ answers[1] = Null
    \/ ~answers[1].enabled
    \/ Falsy(answers[1].apiKey)

\* initialize from the settled sendMessage to its end.
InitResponseArrives(delivery) ==
    /\ content.slot # 0
    /\ req[content.slot].pc = "done"
    /\ req' = [req EXCEPT ![content.slot] = FreeSlot]
    /\ Len(content.inbox) < MaxInbox
    /\ content' =
          IF delivery = "delivered" /\ NeedsConfig(req[content.slot].responses)
              THEN notifySidebar([content EXCEPT !.slot = 0,
                                                 !.configMessage = TRUE],
                                 ShowConfigMessage)
          ELSE [content EXCEPT !.slot = 0]
    /\ UNCHANGED << now, nextSweep, config, pdfCache, notices >>
    /\ UNCHANGED sidebarVars
    /\ UNCHANGED singleVars
    /\ UNCHANGED popupVars
    /\ UNCHANGED oldContent
    /\ UNCHANGED codecVars

\* The page changes its URL without reloading (SPA navigation).
Navigate(toQueue) ==
    /\ content.listening
    /\ content' = [content EXCEPT !.onQueuePage = toQueue, !.urlChanged = TRUE]
    /\ UNCHANGED swVars
    /\ UNCHANGED notices
    /\ UNCHANGED sidebarVars
    /\ UNCHANGED singleVars
    /\ UNCHANGED popupVars
    /\ UNCHANGED oldContent
    /\ UNCHANGED codecVars

\* The MutationObserver callback of observePageChanges, the URL having
\* changed.
PageObserved ==
    /\ content.isInitialized
    /\ content.urlChanged
    /\ content' = [content EXCEPT
           !.urlChanged = FALSE,
           !.collectedFiles = << >>,
           !.hidden = IF ~content.onQueuePage THEN TRUE ELSE FALSE]
    /\ UNCHANGED swVars
    /\ UNCHANGED notices
    /\ UNCHANGED sidebarVars
    /\ UNCHANGED singleVars
    /\ UNCHANGED popupVars
    /\ UNCHANGED oldContent
    /\ UNCHANGED codecVars

\* The chrome.storage.onChanged listener, for a change of briinkConfig.
ChangeNotified ==
    /\ notices # << >>
    /\ notices' = Tail(notices)
    /\ \E newConfig \in { Head(notices) } :
       \E st \in { [ContentState EXCEPT
                      !.content.lastEnabled =
                          IF newConfig.enabled THEN "enabled"
                          ELSE "disabled"] } :
          IF newConfig.enabled /\ ~st.content.isInitialized
              THEN /\ CanInitialize(st)
                   /\ \E after \in { initialize(st) } :
                         content' = after.content /\ req' = after.req
          ELSE IF ~newConfig.enabled /\ st.content.container
              THEN /\ content' = [st.content EXCEPT !.hidden = TRUE]
                   /\ UNCHANGED req
          ELSE IF newConfig.enabled /\ st.content.container
              THEN /\ content' = [st.content EXCEPT !.hidden = FALSE]
                   /\ UNCHANGED req
          ELSE /\ content' = st.content
               /\ UNCHANGED req
    /\ UNCHANGED << now, nextSweep, config, pdfCache >>
    /\ UNCHANGED sidebarVars
    /\ UNCHANGED singleVars
    /\ UNCHANGED popupVars
    /\ UNCHANGED oldContent
    /\ UNCHANGED codecVars

\* The payloads of BRIINK_SOURCE_CLICK: a file with page 0 or page 4.
SourceClicks == { FileInfo(f, p) : f \in FileIds, p \in {0, 4} }

\* The message listener for BRIINK_SOURCE_CLICK: handleSourceDocClick.
SourceClick(payload) ==
    /\ content.isInitialized
    /\ Len(content.inbox) + 2 <= MaxInbox
    /\ \E collected \in { [content EXCEPT
           !.collectedFiles =
               IF InFiles(@, payload.fileId) THEN @
               ELSE Append(@, [payload EXCEPT
                                  !.page = IF payload.page = 0 THEN 1 ELSE @]),
           !.closed = FALSE] } :
          content' = notifySidebar(notifySidebar(collected, LoadPdfMessage(payload)),
                                   FilesListMessage(collected.collectedFiles))
    /\ content' # content
    /\ UNCHANGED swVars
    /\ UNCHANGED notices
    /\ UNCHANGED sidebarVars
    /\ UNCHANGED singleVars
    /\ UNCHANGED popupVars
    /\ UNCHANGED oldContent
    /\ UNCHANGED codecVars

\* A click on the floating toggle button: toggleSidebar.
ToggleSidebar ==
    /\ content.container
    /\ content' = [content EXCEPT !.closed = ~@]
    /\ UNCHANGED swVars
    /\ UNCHANGED notices
    /\ UNCHANGED sidebarVars
    /\ UNCHANGED singleVars
    /\ UNCHANGED popupVars
    /\ UNCHANGED oldContent
    /\ UNCHANGED codecVars

\* A click on the close button of the sidebar: closeSidebar.
CloseSidebar ==
    /\ content.container
    /\ ~content.closed
    /\ content' = [content EXCEPT !.closed = TRUE]
    /\ UNCHANGED swVars
    /\ UNCHANGED notices
    /\ UNCHANGED sidebarVars
    /\ UNCHANGED singleVars
    /\ UNCHANGED popupVars
    /\ UNCHANGED oldContent
    /\ UNCHANGED codecVars

\* The sidebar in the iframe has loaded: onMount adds the message listener
\* and posts BRIINK_SIDEBAR_READY to the page.
SidebarMounts ==
    /\ content.container
    /\ ~content.mounted
    /\ content' = [content EXCEPT !.mounted = TRUE, !.ready = TRUE]
    /\ UNCHANGED swVars
    /\ UNCHANGED notices
    /\ UNCHANGED sidebarVars
    /\ UNCHANGED singleVars
    /\ UNCHANGED popupVars
    /\ UNCHANGED oldContent
    /\ UNCHANGED codecVars

\* Mutant of sidebarReady: the listener only logs the message.
sidebarReadyLogged(c) == [c EXCEPT !.ready = FALSE]

\* The page's message listener, for BRIINK_SIDEBAR_READY: the files
\* collected so far are sent, if there are any.
sidebarReady(c) ==
    IF c.collectedFiles # << >>
        THEN notifySidebar([c EXCEPT !.ready = FALSE],
                           FilesListMessage(c.collectedFiles))
    ELSE [c EXCEPT !.ready = FALSE]

SidebarReadyArrives ==
    /\ content.ready
    /\ content.listeners > 0
    /\ Len(content.inbox) < MaxInbox
    /\ content' = sidebarReady(content)
    /\ UNCHANGED swVars
    /\ UNCHANGED notices
    /\ UNCHANGED sidebarVars
    /\ UNCHANGED singleVars
    /\ UNCHANGED popupVars
    /\ UNCHANGED oldContent
    /\ UNCHANGED codecVars

\* The FETCH_PDF messages handleMessage sends for m: one for each file of
\* m that is not listed.
FetchesFor(st, m) ==
    IF m.type = "LOAD_PDF"
        THEN IF InFiles(st.files, m.file.fileId) THEN 0 ELSE 1
    ELSE Cardinality({ m.files[i].fileId : i \in 1..Len(m.files) }
                        \ { st.files[i].fileId : i \in 1..Len(st.files) })

\* Mutant of handleMessage: a LOAD_PDF takes the configuration notice
\* down.
handleMessageClearingNotice(st, m) ==
    CASE m.type = "LOAD_PDF" ->
           IF ~InFiles(st.files, m.file.fileId)
               THEN fetchPdfForFile([st EXCEPT !.files = Append(@, m.file),
                                               !.needsConfig = FALSE],
                                    m.file, "loadPdf")
           ELSE ShowLoaded([st EXCEPT !.needsConfig = FALSE],
                           m.file.fileId, m.file.page)
      [] m.type = "BRIINK_FILES_LIST" -> AddFiles(st, m.files, 1)
      [] m.type = "SHOW_CONFIG_MESSAGE" -> [st EXCEPT !.needsConfig = TRUE]
      [] OTHER -> st

\* handleMessage of the sidebar up to its first await: LOAD_PDF as in
\* HandleLoadPdf, BRIINK_FILES_LIST as in HandleFilesList.
handleMessage(st, m) ==
    CASE m.type = "LOAD_PDF" ->
           IF ~InFiles(st.files, m.file.fileId)
               THEN fetchPdfForFile([st EXCEPT !.files = Append(@, m.file)],
                                    m.file, "loadPdf")
           ELSE ShowLoaded(st, m.file.fileId, m.file.page)
      [] m.type = "BRIINK_FILES_LIST" -> AddFiles(st, m.files, 1)
      [] m.type = "SHOW_CONFIG_MESSAGE" -> [st EXCEPT !.needsConfig = TRUE]
      [] OTHER -> st

\* The sidebar's message listener runs for the oldest message posted to
\* the iframe.
SidebarReceives ==
    /\ content.mounted
    /\ content.inbox # << >>
    /\ \E m \in { Head(content.inbox) } :
       \E st \in { SidebarState } :
          /\ Cardinality({ s \in Slots : req[s].pc = "free" }) >= FetchesFor(st, m)
          /\ Becomes(handleMessage(st, m))
    /\ content' = [content EXCEPT !.inbox = Tail(@)]
    /\ UNCHANGED << now, nextSweep, config, pdfCache >>
    /\ UNCHANGED << notices, oldContent >>
    /\ UNCHANGED singleVars
    /\ UNCHANGED popupVars
    /\ UNCHANGED codecVars

(***************************************************************************)
(* Content script of content/content.ts: initialize awaits GET_CONFIG      *)
(* before it sets isInitialized                                            *)
(***************************************************************************)

\* No tab runs this content script.  pending: the message slots of the
\* initialize calls suspended at their GET_CONFIG; the other fields as in
\* ContentUnloaded.
OldContentUnloaded ==
    [listening |-> FALSE, onQueuePage |-> FALSE, urlChanged |-> FALSE,
     isInitialized |-> FALSE, container |-> FALSE, hidden |-> FALSE,
     pending |-> {}, created |-> 0, listeners |-> 0, observers |-> 0]

OldContentState == [content |-> oldContent, req |-> req]

\* initialize of content/content.ts up to its await of the GET_CONFIG
\* response.
oldInitialize(st) ==
    IF st.content.isInitialized THEN st
    ELSE Only({ [st EXCEPT
                   !.content.pending = @ \cup { s },
                   !.req[s] = Deliver(st.req[s], [type |-> "GET_CONFIG",
                                                  payload |-> Undefined])] :
                s \in { LowestFreeSlot(st) } })

\* initialize sends GET_CONFIG: a message slot must be free.
OldCanInitialize(st) == ~st.content.isInitialized => HasFreeSlot(st)

\* The page is loaded: the content script runs, registers its
\* storage.onChanged listener and calls initialize.
OldContentLoads(onQueue) ==
    /\ ~oldContent.listening
    /\ \E st \in { [OldContentState EXCEPT !.content.listening = TRUE,
                                           !.content.onQueuePage = onQueue] } :
          /\ OldCanInitialize(st)
          /\ \E after \in { oldInitialize(st) } :
                oldContent' = after.content /\ req' = after.req
    /\ UNCHANGED << now, nextSweep, config, pdfCache >>
    /\ UNCHANGED << content, notices >>
    /\ UNCHANGED sidebarVars
    /\ UNCHANGED singleVars
    /\ UNCHANGED popupVars
    /\ UNCHANGED codecVars

\* initialize of content/content.ts after its await: a rejected
\* sendMessage ends the call; otherwise the settings must be enabled and
\* the page an annotation queue page, and the sidebar is set up.
oldInitializeRest(c, delivery, answers) ==
    IF delivery = "rejected" THEN c
    ELSE IF answers = << >> \/ answers[1] = Null \/ ~answers[1].enabled THEN c
    ELSE IF ~c.onQueuePage THEN c
    ELSE [c EXCEPT !.container = TRUE, !.hidden = FALSE,
                   !.created = @ + 1, !.listeners = @ + 1,
                   !.observers = @ + 1, !.urlChanged = FALSE,
                   !.isInitialized = TRUE]

\* The sendMessage of the initialize call that used slot s settles.
OldInitResponseArrives(s, delivery) ==
    /\ s \in oldContent.pending
    /\ req[s].pc = "done"
    /\ req' = [req EXCEPT ![s] = FreeSlot]
    /\ oldContent' = oldInitializeRest([oldContent EXCEPT !.pending = @ \ { s }],
                                       delivery, req[s].responses)
    /\ UNCHANGED << now, nextSweep, config, pdfCache >>
    /\ UNCHANGED << content, notices >>
    /\ UNCHANGED sidebarVars
    /\ UNCHANGED singleVars
    /\ UNCHANGED popupVars
    /\ UNCHANGED codecVars

\* The page changes its URL without reloading.
OldNavigate(toQueue) ==
    /\ oldContent.listening
    /\ oldContent' = [oldContent EXCEPT !.onQueuePage = toQueue,
                                        !.urlChanged = TRUE]
    /\ UNCHANGED swVars
    /\ UNCHANGED << content, notices >>
    /\ UNCHANGED sidebarVars
    /\ UNCHANGED singleVars
    /\ UNCHANGED popupVars
    /\ UNCHANGED codecVars

\* The MutationObserver callbacks of observePageChanges, the URL having
\* changed: every observer installed does the same to the container.
OldPageObserved ==
    /\ oldContent.observers > 0
    /\ oldContent.urlChanged
    /\ oldContent' = [oldContent EXCEPT !.urlChanged = FALSE,
                                        !.hidden = ~oldContent.onQueuePage]
    /\ UNCHANGED swVars
    /\ UNCHANGED << content, notices >>
    /\ UNCHANGED sidebarVars
    /\ UNCHANGED singleVars
    /\ UNCHANGED popupVars
    /\ UNCHANGED codecVars

\* The chrome.storage.onChanged listener of content/content.ts.
OldChangeNotified ==
    /\ notices # << >>
    /\ notices' = Tail(notices)
    /\ \E newConfig \in { Head(notices) } :
       \E st \in { OldContentState } :
          IF newConfig.enabled /\ ~st.content.isInitialized
              THEN /\ OldCanInitialize(st)
                   /\ \E after \in { oldInitialize(st) } :
                         oldContent' = after.content /\ req' = after.req
          ELSE IF ~newConfig.enabled /\ st.content.container
              THEN /\ oldContent' = [st.content EXCEPT !.hidden = TRUE]
                   /\ UNCHANGED req
          ELSE IF newConfig.enabled /\ st.content.container
              THEN /\ oldContent' = [st.content EXCEPT !.hidden = FALSE]
                   /\ UNCHANGED req
          ELSE /\ oldContent' = st.content
               /\ UNCHANGED req
    /\ UNCHANGED << now, nextSweep, config, pdfCache >>
    /\ UNCHANGED content
    /\ UNCHANGED sidebarVars
    /\ UNCHANGED singleVars
    /\ UNCHANGED popupVars
    /\ UNCHANGED codecVars

PopupIdle == popup = PopupClosed

ContentIdle ==
    /\ content = ContentUnloaded
    /\ notices = << >>
    /\ oldContent = OldContentUnloaded

SingleIdle ==
    /\ singleDoc = [pdfDoc |-> Null, currentPage |-> 1, totalPages |-> 0,
                    scale |-> 100, isLoading |-> FALSE, error |-> NoString,
                    fileName |-> << >>, currentFileId |-> NoFile]
    /\ loadPdfCalls = [i \in Loads |-> NoLoad]

SidebarIdle ==
    /\ files = << >>
    /\ loadedPdfs = [f \in FileIds |-> Null]
    /\ activeFileId = NoFile
    /\ currentPage = 1
    /\ totalPages = 0
    /\ scale = 100
    /\ calls = [f \in FileIds |-> IdleCall]
    /\ fetchSent = [f \in FileIds |-> 0]
    /\ retries = [f \in FileIds |-> 0]
    /\ fitPending = 0
    /\ needsConfig = FALSE

CodecIdle ==
    /\ buffer = << >>
    /\ wire = << >>
    /\ received = << >>
    /\ stage = "idle"

Init ==
    /\ now = 0
    /\ nextSweep = SWEEP_INTERVAL
    /\ config \in Configs
    /\ pdfCache = [f \in FileIds |-> Null]
    /\ req = [s \in Slots |-> FreeSlot]
    /\ SidebarIdle
    /\ SingleIdle
    /\ PopupIdle
    /\ ContentIdle
    /\ CodecIdle

\* The service worker serving FETCH_PDF requests while time passes.
Next ==
    \/ \E s \in Slots, m \in FetchMessages : Receive(s, m)
    \/ \E s \in Slots, storageFails \in BOOLEAN : ConfigSettled(s, storageFails)
    \/ \E s \in Slots : FetchSettles(s)
    \/ \E s \in Slots : BodySettled(s)
    \/ Sweep
    \/ Tick
    \/ \E c \in SavedConfigs : SaveConfig(c)

Spec == Init /\ [][Next]_vars

\* The message relay at one instant, with fixed settings: every kind of
\* message, any number of them, at most MaxReq at a time.
NextRelay ==
    \/ \E s \in Slots, m \in Messages : Receive(s, m)
    \/ \E s \in Slots, storageFails \in BOOLEAN : ConfigSettled(s, storageFails)
    \/ \E s \in Slots : FetchSettles(s)
    \/ \E s \in Slots : BodySettled(s)
    \/ \E s \in Slots, outcome \in ProbeOutcomes : ProbeSettled(s, outcome)
    \/ \E s \in Slots : ProbeBodySettled(s)
    \/ \E s \in Slots : Release(s)

\* The next step of the handler of slot s: its pending storage read, network
\* call or body read settles.
Progress(s) ==
    \/ \E storageFails \in BOOLEAN : ConfigSettled(s, storageFails)
    \/ FetchSettles(s)
    \/ BodySettled(s)
    \/ \E outcome \in ProbeOutcomes : ProbeSettled(s, outcome)
    \/ ProbeBodySettled(s)

\* Every storage read and every network call eventually settles.
RelayFairness == \A s \in Slots : WF_vars(Progress(s))

SpecRelay == Init /\ [][NextRelay]_vars /\ RelayFairness

\* The sidebar and the service worker that answers it, at one instant.
NextSidebar ==
    \/ \E f \in FileIds, p \in Pages : HandleLoadPdf(f, p)
    \/ \E newFiles \in FileLists : HandleFilesList(newFiles)
    \/ \E f \in FileIds : SelectFile(f)
    \/ \E f \in FileIds : RetryFetch(f)
    \/ \E f \in FileIds, delivery \in Deliveries : ResponseArrives(f, delivery)
    \/ \E f \in FileIds, outcome \in DecodeOutcomes : DecodeSettles(f, outcome)
    \/ \E f \in FileIds : RenderSettles(f)
    \/ \E s \in Slots, storageFails \in BOOLEAN : ConfigSettled(s, storageFails)
    \/ \E s \in Slots :
          /\ req[s].pc = "fetch"
          /\ \E outcome \in SidebarFetchOutcomes(req[s].msg.payload.fileId) :
                FetchSettled(s, outcome)
    \/ \E s \in Slots : BodySettled(s)

SpecSidebar == Init /\ [][NextSidebar]_vars

\* The sidebar loading documents while the extension is not configured or
\* is usable: every sendMessage, getDocument and renderPage promise and
\* every storage read, fetch() and body read of the service worker
\* eventually settles.
InitLoading ==
    /\ Init
    /\ config \in { Null, BriinkConfig(ApiKey, Workspace, TRUE) }

SidebarFetchSettles(s) ==
    /\ req[s].pc = "fetch"
    /\ \E outcome \in SidebarFetchOutcomes(req[s].msg.payload.fileId) :
          FetchSettled(s, outcome)

NextLoading ==
    \/ \E f \in FileIds : HandleLoadPdf(f, 1)
    \/ \E f \in FileIds : HandleFilesList(<< FileInfo(f, 1) >>)
    \/ \E f \in FileIds : SelectFile(f)
    \/ \E f \in FileIds : RetryFetch(f)
    \/ \E f \in FileIds, delivery \in LoadingDeliveries :
          ResponseArrives(f, delivery)
    \/ \E f \in FileIds, outcome \in DecodeOutcomes : DecodeSettles(f, outcome)
    \/ \E f \in FileIds : RenderSettles(f)
    \/ \E s \in Slots : ConfigSettled(s, FALSE)
    \/ \E s \in Slots : SidebarFetchSettles(s)
    \/ \E s \in Slots : BodySettled(s)

LoadingFairness ==
    /\ \A f \in FileIds :
          /\ WF_vars(\E delivery \in LoadingDeliveries :
                        ResponseArrives(f, delivery))
          /\ WF_vars(\E outcome \in DecodeOutcomes : DecodeSettles(f, outcome))
          /\ WF_vars(RenderSettles(f))
    /\ \A s \in Slots :
          /\ WF_vars(ConfigSettled(s, FALSE))
          /\ WF_vars(SidebarFetchSettles(s))
          /\ WF_vars(BodySettled(s))

SpecLoading == InitLoading /\ [][NextLoading]_vars /\ LoadingFairness

\* Enabled settings with an API key, differing in one of workspaceId,
\* apiKey and apiBaseUrl.
OtherApiKey == << "k", "2" >>
OtherBaseUrl == << "https://staging.briinkai.com" >>

UsableConfigs ==
    { BriinkConfig(ApiKey, Workspace, TRUE),
      BriinkConfig(ApiKey, NoString, TRUE),
      BriinkConfig(OtherApiKey, Workspace, TRUE),
      [BriinkConfig(ApiKey, Workspace, TRUE) EXCEPT !.apiBaseUrl = OtherBaseUrl] }

InitUsable ==
    /\ Init
    /\ config = BriinkConfig(ApiKey, Workspace, TRUE)

\* The service worker serving FETCH_PDF requests while time passes and the
\* settings change between usable ones.
NextUsable ==
    \/ \E s \in Slots, m \in FetchMessages : Receive(s, m)
    \/ \E s \in Slots : ConfigSettled(s, FALSE)
    \/ \E s \in Slots : SidebarFetchSettles(s)
    \/ \E s \in Slots : BodySettled(s)
    \/ Sweep
    \/ Tick
    \/ \E c \in UsableConfigs : SaveConfig(c)

SpecUsable == InitUsable /\ [][NextUsable]_vars

\* What getDocument settles with in the viewer: documents of one and of
\* three pages, or a rejection.
ViewerDecodeOutcomes ==
    { [ok |-> TRUE, doc |-> [numPages |-> n], message |-> NoString] :
          n \in {1, 3} }
    \cup { [ok |-> FALSE, doc |-> Null, message |-> << "Invalid PDF structure." >>] }

\* The sidebar with its toolbar in use, the extension being configured and
\* enabled: files are listed with page 1 and opened by LOAD_PDF at page 4,
\* beyond the last page.
InitViewer ==
    /\ Init
    /\ config = BriinkConfig(ApiKey, Workspace, TRUE)

NextViewer ==
    \/ \E f \in FileIds : HandleLoadPdf(f, 4)
    \/ \E f \in FileIds : HandleFilesList(<< FileInfo(f, 1) >>)
    \/ \E f \in FileIds : SelectFile(f)
    \/ \E f \in FileIds : RetryFetch(f)
    \/ \E f \in FileIds : ResponseArrives(f, "delivered")
    \/ \E f \in FileIds, outcome \in ViewerDecodeOutcomes : DecodeSettles(f, outcome)
    \/ \E f \in FileIds : RenderSettles(f)
    \/ \E s \in Slots : ConfigSettled(s, FALSE)
    \/ \E s \in Slots :
          /\ req[s].pc = "fetch"
          /\ \E outcome \in SidebarFetchOutcomes(req[s].msg.payload.fileId) :
                FetchSettled(s, outcome)
    \/ \E s \in Slots : BodySettled(s)
    \/ PrevPage
    \/ NextPage
    \/ \E pageNum \in PageInputs : HandlePageInput(pageNum)
    \/ ZoomIn
    \/ ZoomOut

SpecViewer == InitViewer /\ [][NextViewer]_vars

\* Pages a LOAD_PDF message names: none, zero, and one beyond the last
\* page.
LoadPdfPages == { UndefinedPage, 0, 4 }

\* The sidebar opening documents of one and of three pages at these pages
\* and moving through them, the extension being configured and enabled.
NextPages ==
    \/ \E f \in FileIds, p \in LoadPdfPages : HandleLoadPdf(f, p)
    \/ \E f \in FileIds : HandleFilesList(<< FileInfo(f, 1) >>)
    \/ \E f \in FileIds : SelectFile(f)
    \/ \E f \in FileIds : RetryFetch(f)
    \/ \E f \in FileIds : ResponseArrives(f, "delivered")
    \/ \E f \in FileIds, outcome \in ViewerDecodeOutcomes : DecodeSettles(f, outcome)
    \/ \E f \in FileIds : RenderSettles(f)
    \/ \E s \in Slots : ConfigSettled(s, FALSE)
    \/ \E s \in Slots : SidebarFetchSettles(s)
    \/ \E s \in Slots : BodySettled(s)
    \/ PrevPage
    \/ NextPage
    \/ \E pageNum \in PageInputs : HandlePageInput(pageNum)

SpecPages == InitViewer /\ [][NextPages]_vars

\* The sidebar showing documents while the zoom and fit-width buttons are
\* used.
NextZoom ==
    \/ \E f \in FileIds : HandleLoadPdf(f, 1)
    \/ \E f \in FileIds : SelectFile(f)
    \/ \E f \in FileIds : ResponseArrives(f, "delivered")
    \/ \E f \in FileIds, outcome \in ViewerDecodeOutcomes : DecodeSettles(f, outcome)
    \/ \E f \in FileIds : RenderSettles(f)
    \/ \E s \in Slots : ConfigSettled(s, FALSE)
    \/ \E s \in Slots : SidebarFetchSettles(s)
    \/ \E s \in Slots : BodySettled(s)
    \/ ZoomIn
    \/ ZoomOut
    \/ FitWidthClick
    \/ \E clientWidth \in ContainerWidths, nativeWidth \in NativeWidths :
          FitWidthSettles(clientWidth, nativeWidth)

SpecZoom == InitViewer /\ [][NextZoom]_vars

\* The sidebar receiving LOAD_PDF messages for files it has not listed yet,
\* and nothing else: the last file of the list is the one named by the
\* LOAD_PDF received last.
OpenNewFile(fileId, page) ==
    /\ ~InFiles(files, fileId)
    /\ HandleLoadPdf(fileId, page)

NextOpen ==
    \/ \E f \in FileIds, p \in Pages : OpenNewFile(f, p)
    \/ \E f \in FileIds : ResponseArrives(f, "delivered")
    \/ \E f \in FileIds, outcome \in ViewerDecodeOutcomes : DecodeSettles(f, outcome)
    \/ \E f \in FileIds : RenderSettles(f)
    \/ \E s \in Slots : ConfigSettled(s, FALSE)
    \/ \E s \in Slots : SidebarFetchSettles(s)
    \/ \E s \in Slots : BodySettled(s)

SpecOpen == InitViewer /\ [][NextOpen]_vars

\* What fetch() settles with where the single-document sidebar is the
\* sender: the file, with a header naming it, or a 404.
SingleFetchOutcomes(fileId) ==
    { IF fileId = "a"
          THEN HttpResponse(200, PdfType, QuotedDisposition, FileBody(fileId), << >>, FALSE)
      ELSE HttpResponse(200, OctetType, PlainDisposition, FileBody(fileId), << >>, FALSE),
      HttpResponse(404, JsonType, NoString, << >>, NotFoundText, FALSE) }

\* The single-document sidebar and the service worker that answers it.
NextSingle ==
    \/ \E f \in FileIds, p \in Pages : LoadPdf(f, p)
    \/ \E s \in Slots : ConfigSettled(s, FALSE)
    \/ \E s \in Slots :
          /\ req[s].pc = "fetch"
          /\ \E outcome \in SingleFetchOutcomes(req[s].msg.payload.fileId) :
                FetchSettled(s, outcome)
    \/ \E s \in Slots : BodySettled(s)
    \/ \E i \in Loads, delivery \in Deliveries : LoadResponseArrives(i, delivery)
    \/ \E i \in Loads, outcome \in ViewerDecodeOutcomes : LoadDecodeSettles(i, outcome)
    \/ \E i \in Loads, renderFails \in BOOLEAN : LoadRenderSettles(i, renderFails)

SpecSingle == InitViewer /\ [][NextSingle]_vars

\* The popup is opened with no settings saved yet, or with usable ones.
InitPopup ==
    /\ Init
    /\ config \in { Null, BriinkConfig(ApiKey, Workspace, TRUE) }

\* The service worker serving FETCH_PDF requests for one file at one
\* instant, the responses being collected by their senders.
Requests ==
    \/ \E s \in Slots : Receive(s, FetchPdfMessage("a"))
    \/ \E s \in Slots : ConfigSettled(s, FALSE)
    \/ \E s \in Slots :
          /\ req[s].pc = "fetch"
          /\ \E outcome \in SidebarFetchOutcomes(req[s].msg.payload.fileId) :
                FetchSettled(s, outcome)
    \/ \E s \in Slots : BodySettled(s)
    \/ \E s \in Slots : s # popup.testSlot /\ Release(s)

\* Pages that read the settings through GET_CONFIG.
Readers ==
    \/ \E s \in Slots :
          Receive(s, [type |-> "GET_CONFIG", payload |-> Undefined])
    \/ \E s \in Slots, storageFails \in BOOLEAN : ConfigSettled(s, storageFails)
    \/ \E s \in Slots : s # popup.testSlot /\ Release(s)

\* The settings form in use while other pages read the settings.
NextPopup ==
    \/ OpenPopup
    \/ \E storageFails \in BOOLEAN : LoadConfigSettled(storageFails)
    \/ \E apiKey \in ApiKeyInputs, workspaceId \in WorkspaceInputs,
          enabled \in BOOLEAN : EditForm(apiKey, workspaceId, enabled)
    \/ SaveClick
    \/ \E ok \in BOOLEAN : SaveSettled(ok)
    \/ StatusTimeout
    \/ Readers

SpecPopup == InitPopup /\ [][NextPopup]_vars

\* The connectivity test in use while requests are served and settings are
\* saved.
NextProbe ==
    \/ OpenPopup
    \/ \E storageFails \in BOOLEAN : LoadConfigSettled(storageFails)
    \/ \E apiKey \in ApiKeyInputs : EditForm(apiKey, popup.workspaceId, popup.enabled)
    \/ SaveClick
    \/ SaveSettled(TRUE)
    \/ StatusTimeout
    \/ TestClick
    \/ \E delivery \in Deliveries : TestResponseArrives(delivery)
    \/ \E s \in Slots, outcome \in ProbeOutcomes : ProbeSettled(s, outcome)
    \/ \E s \in Slots : ProbeBodySettled(s)
    \/ Requests

SpecProbe == InitPopup /\ [][NextProbe]_vars

\* The content script in a LangSmith tab while settings are saved.
NextContent ==
    \/ \E onQueue \in BOOLEAN : ContentLoads(onQueue)
    \/ \E onQueue \in BOOLEAN : ContentLoadsEarly(onQueue)
    \/ DomContentLoaded
    \/ \E delivery \in Deliveries : InitResponseArrives(delivery)
    \/ \E toQueue \in BOOLEAN : Navigate(toQueue)
    \/ PageObserved
    \/ ChangeNotified
    \/ \E payload \in SourceClicks : SourceClick(payload)
    \/ ToggleSidebar
    \/ CloseSidebar
    \/ \E c \in SavedConfigs : SaveConfig(c)
    \/ \E s \in Slots, storageFails \in BOOLEAN : ConfigSettled(s, storageFails)

SpecContent == Init /\ [][NextContent]_vars

\* The page and the sidebar in its iframe before the extension has been set
\* up: source clicks before and after the sidebar has mounted, navigation,
\* and the service worker answering GET_CONFIG and FETCH_PDF.  Every posted
\* message is dispatched, every storage read settles and every response
\* arrives.
InitFrame ==
    /\ Init
    /\ config = Null

NextFrame ==
    \/ \E onQueue \in BOOLEAN : ContentLoads(onQueue)
    \/ \E delivery \in Deliveries : InitResponseArrives(delivery)
    \/ Navigate(TRUE)
    \/ PageObserved
    \/ \E f \in FileIds : SourceClick(FileInfo(f, 4))
    \/ SidebarMounts
    \/ SidebarReadyArrives
    \/ SidebarReceives
    \/ \E f \in FileIds : ResponseArrives(f, "delivered")
    \/ \E s \in Slots : ConfigSettled(s, FALSE)

FrameFairness ==
    /\ \A f \in FileIds : WF_vars(ResponseArrives(f, "delivered"))
    /\ \A s \in Slots : WF_vars(ConfigSettled(s, FALSE))
    /\ WF_vars(\E delivery \in Deliveries : InitResponseArrives(delivery))
    /\ WF_vars(SidebarReadyArrives)
    /\ WF_vars(SidebarReceives)

SpecFrame == InitFrame /\ [][NextFrame]_vars /\ FrameFairness

\* The page and the sidebar while settings are saved and a clicked file is
\* loaded: the settings initialize reads may be absent, incomplete or
\* usable, and change afterwards.
NextNotice ==
    \/ ContentLoads(TRUE)
    \/ \E delivery \in Deliveries : InitResponseArrives(delivery)
    \/ ChangeNotified
    \/ SourceClick(FileInfo("a", 4))
    \/ SidebarMounts
    \/ SidebarReadyArrives
    \/ SidebarReceives
    \/ \E c \in SavedConfigs : SaveConfig(c)
    \/ ResponseArrives("a", "delivered")
    \/ \E outcome \in DecodeOutcomes : DecodeSettles("a", outcome)
    \/ RenderSettles("a")
    \/ \E s \in Slots, storageFails \in BOOLEAN : ConfigSettled(s, storageFails)
    \/ \E s \in Slots : SidebarFetchSettles(s)
    \/ \E s \in Slots : BodySettled(s)

SpecNotice == Init /\ [][NextNotice]_vars

\* The content script of content/content.ts on a page, while settings are
\* saved, the service worker answering its GET_CONFIG messages.
NextOldContent ==
    \/ \E onQueue \in BOOLEAN : OldContentLoads(onQueue)
    \/ \E s \in Slots, delivery \in Deliveries : OldInitResponseArrives(s, delivery)
    \/ \E toQueue \in BOOLEAN : OldNavigate(toQueue)
    \/ OldPageObserved
    \/ OldChangeNotified
    \/ \E c \in SavedConfigs : SaveConfig(c)
    \/ \E s \in Slots, storageFails \in BOOLEAN : ConfigSettled(s, storageFails)

SpecOldContent == Init /\ [][NextOldContent]_vars

\* One transfer of a buffer from the service worker to the sidebar.
InitCodec ==
    /\ now = 0
    /\ nextSweep = SWEEP_INTERVAL
    /\ config = Null
    /\ pdfCache = [f \in FileIds |-> Null]
    /\ req = [s \in Slots |-> FreeSlot]
    /\ SidebarIdle
    /\ SingleIdle
    /\ PopupIdle
    /\ ContentIdle
    /\ buffer \in CodecInputs
    /\ wire = << >>
    /\ received = << >>
    /\ stage = "chosen"

NextCodec == Encode \/ Decode

SpecCodec == InitCodec /\ [][NextCodec]_vars

(***************************************************************************)
(* Properties of the cache and of the FETCH_PDF path                       *)
(***************************************************************************)

IsFetchPdf(r) ==
    r.msg # Undefined /\ r.msg.type = "FETCH_PDF" /\ r.msg.payload # Undefined

FileOf(r) == r.msg.payload.fileId

\* The settings have an API key and are enabled.
SettingsUsable(cfg) == cfg # Null /\ ~Falsy(cfg.apiKey) /\ cfg.enabled

\* The step in which the handler of slot s, having read the settings,
\* handles its FETCH_PDF request.
Handles(s) ==
    req[s].pc = "config" /\ req'[s].pc # "config" /\ IsFetchPdf(req[s])

\* The step in which the handler of slot s gets the outcome of its remote
\* fetch.
FetchCompletes(s) == req[s].pc \in {"fetch", "body"} /\ req'[s].pc = "done"

Succeeded(r) ==
    /\ Len(r.responses) = 1
    /\ "success" \in DOMAIN r.responses[1]
    /\ r.responses[1].success

Failed(r) ==
    /\ Len(r.responses) = 1
    /\ DOMAIN r.responses[1] = {"success", "error"}
    /\ ~r.responses[1].success

\* C1: a FETCH_PDF for D, handled with settings that are configured and
\* enabled while the cache holds an entry for D of age below 5 minutes,
\* issues no network fetch and answers with the entry's bytes and file
\* name, leaving the cache as it is; together with any completed request
\* for D it has issued at most one network fetch.
C1_HitWithinTtl ==
    [][\A s \in Slots :
         (/\ Handles(s)
          /\ SettingsUsable(req'[s].cfg)
          /\ pdfCache[FileOf(req[s])] # Null
          /\ now - pdfCache[FileOf(req[s])].timestamp < 5)
         => LET entry == pdfCache[FileOf(req[s])] IN
            /\ req'[s].pc = "done"
            /\ req'[s].netCalls = 0
            /\ req'[s].responses =
                  << [success |-> TRUE,
                      data |-> arrayBufferToBase64(entry.data),
                      fileName |-> entry.fileName] >>
            /\ pdfCache' = pdfCache
            /\ \A t \in Slots \ {s} :
                  (IsFetchPdf(req[t]) /\ FileOf(req[t]) = FileOf(req[s])
                      /\ req[t].pc = "done")
                  => req[t].netCalls + req'[s].netCalls <= 1
      ]_vars

\* A request was answered from an entry that an earlier request fetched.
C1_Witness ==
    \E s, t \in Slots :
        /\ s # t
        /\ req[s].pc = "done" /\ req[t].pc = "done"
        /\ FileOf(req[s]) = FileOf(req[t])
        /\ req[t].netCalls = 1 /\ Succeeded(req[t])
        /\ req[s].netCalls = 0 /\ Succeeded(req[s])
        /\ req[s].cached # Null
        /\ req[s].cached.timestamp < now

\* A fetch completes with success for a request that found an expired
\* entry: the entry is replaced by the new bytes and a later timestamp.
ReplacesExpired(s) ==
    (FetchCompletes(s) /\ Succeeded(req'[s]) /\ req[s].cached # Null)
    => LET entry == pdfCache'[FileOf(req[s])] IN
       /\ entry # Null
       /\ entry.timestamp = now
       /\ entry.timestamp > req[s].cached.timestamp
       /\ entry.data = req[s].response.bytes
       /\ req'[s].responses[1].data = arrayBufferToBase64(entry.data)

\* C2 as stated: every FETCH_PDF for D handled while the entry for D has
\* age of 5 minutes or more issues a new network fetch, and a successful
\* fetch replaces the entry.
C2_Original ==
    [][\A s \in Slots :
         /\ (/\ Handles(s)
             /\ pdfCache[FileOf(req[s])] # Null
             /\ now - pdfCache[FileOf(req[s])].timestamp >= 5)
            => (req'[s].pc = "fetch" /\ req'[s].netCalls = req[s].netCalls + 1)
         /\ ReplacesExpired(s)
      ]_vars

\* C2, amended: a FETCH_PDF for D handled with settings that are
\* configured, enabled and name a workspace, while the entry for D has age
\* of 5 minutes or more, issues a new network fetch; when that fetch
\* succeeds the entry is replaced by the new bytes with a timestamp
\* strictly later than the old one.
C2_RefetchAfterTtl ==
    [][\A s \in Slots :
         /\ (/\ Handles(s)
             /\ SettingsUsable(req'[s].cfg)
             /\ ~Falsy(req'[s].cfg.workspaceId)
             /\ pdfCache[FileOf(req[s])] # Null
             /\ now - pdfCache[FileOf(req[s])].timestamp >= 5)
            => (req'[s].pc = "fetch" /\ req'[s].netCalls = req[s].netCalls + 1)
         /\ ReplacesExpired(s)
      ]_vars

\* A request that found an expired entry has fetched again and replaced it.
C2_Witness ==
    \E s \in Slots :
        /\ req[s].pc = "done" /\ Succeeded(req[s])
        /\ req[s].netCalls = 1
        /\ req[s].cached # Null
        /\ pdfCache[FileOf(req[s])] # Null
        /\ pdfCache[FileOf(req[s])].timestamp >= req[s].cached.timestamp + 5

\* C3: a FETCH_PDF answered with success without a network fetch was
\* answered from an entry of age below 5 minutes at that moment, and an
\* entry of age 5 minutes or more is never what the answer is made from,
\* swept or not.
C3_ServedEntryIsFresh ==
    [][\A s \in Slots :
         /\ (Handles(s) /\ req'[s].pc = "done" /\ Succeeded(req'[s]))
            => /\ pdfCache[FileOf(req[s])] # Null
               /\ now - pdfCache[FileOf(req[s])].timestamp < 5
               /\ req'[s].responses[1].data =
                     arrayBufferToBase64(pdfCache[FileOf(req[s])].data)
         /\ (/\ Handles(s)
             /\ pdfCache[FileOf(req[s])] # Null
             /\ now - pdfCache[FileOf(req[s])].timestamp >= 5)
            => ~(req'[s].pc = "done" /\ Succeeded(req'[s]))
      ]_vars

\* A request found an entry of age 5 minutes or more that the sweep had
\* not removed, and went to the network instead of answering from it.
C3_Witness ==
    \E s \in Slots :
        /\ req[s].pc = "fetch"
        /\ req[s].cached # Null
        /\ pdfCache[FileOf(req[s])] = req[s].cached
        /\ now - req[s].cached.timestamp >= 5

NotConfiguredError ==
    << "API key not configured. Please set up the extension." >>

DisabledError == << "Extension is disabled" >>

\* C4: a FETCH_PDF handled while the settings read are absent, have no
\* API key or are disabled is answered with a failure, issues no network
\* call and neither answers from the cache nor changes it.
C4_UnconfiguredFails ==
    [][\A s \in Slots :
         (Handles(s) /\ ~SettingsUsable(req'[s].cfg))
         => /\ req'[s].pc = "done"
            /\ Failed(req'[s])
            /\ req'[s].responses[1].error \in {NotConfiguredError, DisabledError}
            /\ req'[s].netCalls = 0
            /\ pdfCache' = pdfCache
      ]_vars

\* A request for a file with a fresh cache entry was refused because the
\* persisted settings are absent, without API key or disabled.
C4_Witness ==
    \E s \in Slots :
        /\ req[s].pc = "done" /\ IsFetchPdf(req[s]) /\ Failed(req[s])
        /\ ~SettingsUsable(config)
        /\ req[s].cfg = config
        /\ pdfCache[FileOf(req[s])] # Null
        /\ now - pdfCache[FileOf(req[s])].timestamp < 5

Pending(s) == req[s].pc \in {"config", "fetch", "body", "probe", "probeBody"}

\* C5: every message delivered to the listener is eventually answered,
\* given that every storage read and network call settles; a fault raised
\* inside the handler is answered with {success: false, error: message}.
C5_EveryMessageAnswered ==
    /\ \A s \in Slots :
          Pending(s) ~> (req[s].pc = "done" /\ Len(req[s].responses) >= 1)
    /\ [](\A s \in Slots : req[s].pc = "done" => Len(req[s].responses) >= 1)
    /\ [](\A s \in Slots :
            req[s].caught
            => /\ Failed(req[s])
               /\ req[s].responses[1].error = PayloadTypeError.message)

\* A FETCH_PDF without payload, handled with usable settings, raised a
\* TypeError inside the handler and was answered with its message.
C5_Witness ==
    \E s \in Slots :
        /\ req[s].pc = "done"
        /\ req[s].msg.type = "FETCH_PDF"
        /\ req[s].caught
        /\ req[s].responses = << Failure(PayloadTypeError.message) >>

\* The response is one the handler of this very request produces: for a
\* FETCH_PDF the bytes of the requested file, for a GET_CONFIG the
\* settings, for a TEST_CONNECTION a bare result.
OwnResponse(r) ==
    \A i \in 1..Len(r.responses) :
        LET resp == r.responses[i] IN
        CASE r.msg.type = "GET_CONFIG" -> resp = r.cfg
          [] r.msg.type = "TEST_CONNECTION" ->
               resp = [success |-> TRUE] \/ DOMAIN resp = {"success", "error"}
          [] r.msg.type = "FETCH_PDF" ->
               \/ DOMAIN resp = {"success", "error"} /\ ~resp.success
               \/ /\ DOMAIN resp = {"success", "data", "fileName"}
                  /\ r.msg.payload # Undefined
                  /\ resp.data \in { arrayBufferToBase64(FileBody(r.msg.payload.fileId)),
                                     arrayBufferToBase64(EmptyBody) }
          [] OTHER -> resp = Failure(<< "Unknown message type" >>)

\* C6: sendResponse is invoked at most once for every request, on every
\* path, the catch block included, and never before its handler is done;
\* with several requests in flight each response is the one of its own
\* request.
C6_AtMostOneResponse ==
    \A s \in Slots :
        /\ Len(req[s].responses) <= 1
        /\ req[s].pc # "done" => req[s].responses = << >>
        /\ OwnResponse(req[s])

\* Two requests for different files, in flight together, were each
\* answered once with the bytes of their own file.
C6_Witness ==
    \E s, t \in Slots :
        /\ req[s].pc = "done" /\ req[t].pc = "done"
        /\ IsFetchPdf(req[s]) /\ IsFetchPdf(req[t])
        /\ FileOf(req[s]) # FileOf(req[t])
        /\ Succeeded(req[s]) /\ Succeeded(req[t])
        /\ req[s].netCalls = 1 /\ req[t].netCalls = 1
        /\ req[s].responses[1].data # req[t].responses[1].data

\* C8: fetchPdf, fetchPdfWithCache and testConnection return every failure
\* as a value: whatever the workspace check, the fetch() and the body read
\* do, the listener gets a {success, ...} result to send and its catch
\* block does not run for them.
C8_FailuresAreValues ==
    \A s \in Slots :
        /\ (req[s].pc = "done" /\ req[s].netCalls >= 1)
           => /\ ~req[s].caught
              /\ Succeeded(req[s]) \/ Failed(req[s])
        /\ (/\ req[s].pc = "done" /\ IsFetchPdf(req[s])
            /\ SettingsUsable(req[s].cfg) /\ Falsy(req[s].cfg.workspaceId)
            /\ req[s].cached = Null)
           => /\ ~req[s].caught
              /\ req[s].responses = << WorkspaceRequired >>
        /\ req[s].caught => req[s].msg.payload = Undefined

\* A fetch() rejected with a value that is no Error, a body read failed,
\* and a probe was rejected: each was answered with a failure value.
C8_Witness ==
    \E s \in Slots :
        /\ req[s].pc = "done" /\ req[s].netCalls = 1 /\ ~req[s].caught
        /\ req[s].responses[1] \in { Failure(<< "Failed to fetch PDF" >>),
                                     Failure(<< "Connection failed" >>),
                                     Failure(<< "Failed to fetch" >>) }

(***************************************************************************)
(* Properties of the sidebar's load states                                 *)
(***************************************************************************)

\* The document of the file is in the Failed state.
FailedDoc(f) ==
    /\ loadedPdfs[f] # Null
    /\ ~loadedPdfs[f].loading
    /\ ~Falsy(loadedPdfs[f].error)

\* A FETCH_PDF request for the file is with the service worker.
InFlight(f) ==
    \E s \in Slots : req[s].pc # "free" /\ req[s].msg.payload.fileId = f

\* C9: no error is retried automatically.  The handler of a FETCH_PDF
\* request issues at most one network request; the sidebar sends for a file
\* at most one FETCH_PDF for its opening plus one per click on Retry; and a
\* document in the Failed state has no request in flight and stays as it is
\* until a click on Retry, which alone sends a new FETCH_PDF for it.
C9_NoAutomaticRetry ==
    /\ [](\A s \in Slots : req[s].netCalls <= 1)
    /\ [](\A f \in FileIds : fetchSent[f] <= 1 + retries[f])
    /\ [](\A f \in FileIds :
            FailedDoc(f) => calls[f].pc = "idle" /\ ~InFlight(f))
    /\ [][\A f \in FileIds :
            FailedDoc(f)
            => \/ /\ loadedPdfs'[f] = loadedPdfs[f]
                  /\ fetchSent'[f] = fetchSent[f]
                  /\ retries'[f] = retries[f]
               \/ /\ retries'[f] = retries[f] + 1
                  /\ fetchSent'[f] = fetchSent[f] + 1
                  /\ loadedPdfs'[f].loading
      ]_vars

\* A file whose fetch got a 404 was retried once by a click, its second
\* request went to the network once and failed again, and nothing more was
\* sent.
C9_Witness ==
    \E f \in FileIds :
        /\ FailedDoc(f)
        /\ loadedPdfs[f].error =
              << "Failed to fetch PDF: ", "404", " - " >> \o NotFoundText
        /\ retries[f] = 1
        /\ fetchSent[f] = 2
        /\ ~InFlight(f)

(***************************************************************************)
(* Properties of the transfer encoding                                     *)
(***************************************************************************)

\* C10: what the sidebar decodes from the service worker's encoding of a
\* buffer is that buffer, in length and content, for every buffer: neither
\* the encoding nor the decoding throws.
C10_RoundTripLossless ==
    /\ stage \notin { "encodeThrew", "decodeThrew" }
    /\ stage = "decoded"
       => /\ Len(received) = Len(buffer)
          /\ \A i \in 1..Len(buffer) : received[i] = buffer[i]

\* A buffer holding the byte 255 whose length is no multiple of 3, so that
\* its encoding is padded, has been decoded.
C10_Witness ==
    /\ stage = "decoded"
    /\ Len(buffer) >= 2
    /\ Len(buffer) % 3 # 0
    /\ \E i \in 1..Len(buffer) : buffer[i] = 255
    /\ wire[Len(wire)] = "="

(***************************************************************************)
(* Properties of fetchPdf's result                                         *)
(***************************************************************************)

\* The file name a Content-Disposition value of the remote API names.
NamedFile(cd) ==
    CASE cd = QuotedDisposition -> << "d", "o", "c", ".", "p", "d", "f" >>
      [] cd = PlainDisposition -> << "b", ".", "p", "d", "f" >>
      [] OTHER -> NoString

\* The Response whose body the handler of slot s has read in this step.
BodyRead(s) ==
    /\ req[s].pc = "body"
    /\ req'[s].pc = "done"
    /\ ~req[s].response.bodyFails

\* C11: a FETCH_PDF whose remote response is 200 with a PDF content type,
\* body B and a Content-Disposition naming N is answered with success, the
\* base64 encoding of B and the name N, and B and N are what the cache then
\* holds; a request served from a valid cache entry is answered with
\* success, the base64 encoding of the entry's bytes and the entry's name.
C11_PdfResponseRelayed ==
    [][\A s \in Slots :
         /\ (/\ BodyRead(s)
             /\ req[s].response.status = 200
             /\ Includes(req[s].response.contentType, << "p", "d", "f" >>)
             /\ NamedFile(req[s].response.contentDisposition) # NoString)
            => /\ req'[s].responses =
                    << [success |-> TRUE,
                        data |-> arrayBufferToBase64(req[s].response.bytes),
                        fileName |-> NamedFile(req[s].response.contentDisposition)] >>
               /\ base64ToArrayBuffer(req'[s].responses[1].data)
                    = req[s].response.bytes
               /\ pdfCache'[FileOf(req[s])].data = req[s].response.bytes
               /\ pdfCache'[FileOf(req[s])].fileName
                    = NamedFile(req[s].response.contentDisposition)
         /\ (/\ Handles(s)
             /\ SettingsUsable(req'[s].cfg)
             /\ CacheHit(FileOf(req[s])))
            => req'[s].responses =
                 << [success |-> TRUE,
                     data |-> arrayBufferToBase64(pdfCache[FileOf(req[s])].data),
                     fileName |-> pdfCache[FileOf(req[s])].fileName] >>
      ]_vars

\* Two requests for the file "a" have been answered alike, with the
\* encoding "JVBERgo=" of its five bytes and the name doc.pdf: one from the
\* network, whose response had the header a; filename="doc.pdf", and one
\* from the cache without a network call.
C11_Witness ==
    \E s, t \in Slots :
        /\ req[s].pc = "done" /\ req[t].pc = "done"
        /\ req[s].netCalls = 1 /\ req[t].netCalls = 0
        /\ req[t].cached # Null
        /\ req[s].url = fetchPdfUrl("a", BriinkConfig(ApiKey, Workspace, TRUE))
        /\ req[s].responses = req[t].responses
        /\ req[s].responses =
              << [success |-> TRUE,
                  data |-> << "J", "V", "B", "E", "R", "g", "o", "=" >>,
                  fileName |-> << "d", "o", "c", ".", "p", "d", "f" >>] >>

\* The declared content type says PDF or octet-stream.
IndicatesPdf(contentType) ==
    \/ Includes(contentType, << "p", "d", "f" >>)
    \/ Includes(contentType, << "o", "c", "t", "e", "t", "-", "s", "t", "r", "e", "a", "m" >>)

\* The answer to a response of an unexpected type: the declared type and
\* the first 200 characters of the body.
UnexpectedTypeError(response) ==
    Failure(<< "Unexpected content type: " >> \o response.contentType
               \o << ". Response: " >>
               \o SubSeq(response.text, 1, Min(200, Len(response.text))))

\* The handler of slot s gets fetchPdf's result for a 2xx Response.
OkCompletes(s) ==
    /\ req[s].pc = "body"
    /\ req'[s].pc = "done"
    /\ Ok(req[s].response)

\* C12 as stated: for a 2xx response the request succeeds exactly when the
\* declared content type indicates a PDF or an octet-stream; otherwise it
\* fails with the declared type and a body excerpt and the cache is left
\* as it is.
C12_Original ==
    [][\A s \in Slots :
         OkCompletes(s)
         => /\ Succeeded(req'[s]) <=> IndicatesPdf(req[s].response.contentType)
            /\ ~IndicatesPdf(req[s].response.contentType)
               => /\ req'[s].responses = << UnexpectedTypeError(req[s].response) >>
                  /\ pdfCache' = pdfCache
      ]_vars

\* C12: for a 2xx response whose body can be read, the request succeeds
\* exactly when no content type is declared or the declared type contains
\* 'pdf' or 'octet-stream'; when a type is declared and contains neither,
\* the answer is a failure carrying the declared type and the first 200
\* characters of the body, without document bytes, and the cache is left
\* as it is.  A 2xx response whose body cannot be read is a failure that
\* leaves the cache as it is, whatever its type.
C12_SuccessIffAcceptedType ==
    [][\A s \in Slots :
         OkCompletes(s)
         => LET response == req[s].response
                accepted == \/ Falsy(response.contentType)
                            \/ IndicatesPdf(response.contentType) IN
            /\ Succeeded(req'[s]) <=> (accepted /\ ~response.bodyFails)
            /\ (~accepted /\ ~response.bodyFails)
               => req'[s].responses = << UnexpectedTypeError(response) >>
            /\ ~Succeeded(req'[s])
               => /\ Failed(req'[s])
                  /\ pdfCache' = pdfCache
            /\ Succeeded(req'[s])
               => /\ req'[s].responses[1].data = arrayBufferToBase64(response.bytes)
                  /\ pdfCache'[FileOf(req[s])].data = response.bytes
      ]_vars

\* Two 2xx responses have been answered: one that declares no content
\* type with success, its empty body being cached under the default name,
\* and a JSON one with the failure that quotes its type and body, nothing
\* of it being cached.
C12_Witness ==
    \E s, t \in Slots :
        /\ req[s].pc = "done" /\ req[t].pc = "done"
        /\ req[s].netCalls = 1 /\ req[t].netCalls = 1
        /\ req[s].responses =
              << Failure(<< "Unexpected content type: " >> \o JsonType
                            \o << ". Response: " >> \o JsonText) >>
        /\ pdfCache[FileOf(req[s])] = Null
        /\ req[t].responses =
              << [success |-> TRUE, data |-> << >>,
                  fileName |-> << "document.pdf" >>] >>
        /\ pdfCache[FileOf(req[t])] # Null
        /\ pdfCache[FileOf(req[t])].data = EmptyBody

(***************************************************************************)
(* Properties of the sidebar's documents and toolbar                       *)
(***************************************************************************)

\* The load state of a loadedPdfs entry.
DocState(entry) ==
    IF entry = Null THEN "none"
    ELSE IF entry.loading THEN "loading"
    ELSE IF entry.doc # Null THEN "ready"
    ELSE IF ~Falsy(entry.error) THEN "failed"
    ELSE "other"

\* C13: each open document is Loading, Ready or Failed.  A document
\* leaves Loading only to Ready, when its fetch has succeeded and its
\* decoding succeeds, or to Failed, when its fetch or its decoding fails; a
\* Failed document stays as it is until a click on Retry makes it Loading;
\* the entry of a Ready document is never changed again, by a file list,
\* by LOAD_PDF, by tab selection, by navigation or by zoom.
C13_LoadStateMachine ==
    [][\A f \in FileIds :
         LET before == DocState(loadedPdfs[f])
             after == DocState(loadedPdfs'[f]) IN
         /\ after # "other"
         /\ before = "none" => after \in { "none", "loading" }
         /\ before = "loading"
            => /\ after \in { "loading", "ready", "failed" }
               /\ after = "ready"
                  => /\ calls[f].pc = "decode"
                     /\ calls[f].response.success
               /\ after = "failed" => calls[f].pc \in { "sent", "decode" }
         /\ before = "failed"
            => \/ loadedPdfs'[f] = loadedPdfs[f]
               \/ after = "loading" /\ RetryFetch(f)
         /\ before = "ready" => loadedPdfs'[f] = loadedPdfs[f]
      ]_vars

\* A document that failed and was retried is Ready and active, and the
\* toolbar has been used on it since: the zoom is not 1.0 and the page is
\* not the one it opened at.
C13_Witness ==
    \E f \in FileIds :
        /\ retries[f] = 1
        /\ fetchSent[f] = 2
        /\ DocState(loadedPdfs[f]) = "ready"
        /\ activeFileId = f
        /\ scale # 100
        /\ currentPage # ClampPage(loadedPdfs[f].initialPage, totalPages)

\* The active document is Ready, with at least one page.
ActiveReady ==
    /\ activeFileId # NoFile
    /\ DocState(loadedPdfs[activeFileId]) = "ready"
    /\ loadedPdfs[activeFileId].doc.numPages >= 1

\* The page a request for page n of a document of pageCount pages
\* resolves to: the nearest of 1..pageCount.
NearestPage(n, pageCount) ==
    IF n < 1 THEN 1 ELSE IF n > pageCount THEN pageCount ELSE n

\* C14: while the active document is Ready with at least one page, a
\* request for page n through the page input, and one for the page before
\* or after the current one through the page buttons, makes currentPage
\* the nearest page to n within 1..pageCount of that document: 1 for
\* n <= 0, pageCount for n beyond it.
C14_NavigationClamped ==
    [][ActiveReady
        => LET pageCount == loadedPdfs[activeFileId].doc.numPages IN
           /\ \A n \in PageInputs :
                 HandlePageInput(n) => currentPage' = NearestPage(n, pageCount)
           /\ PrevPage => currentPage' = NearestPage(currentPage - 1, pageCount)
           /\ NextPage => currentPage' = NearestPage(currentPage + 1, pageCount)
      ]_vars

\* A three-page document opened by LOAD_PDF at page 4, hence shown at page
\* 3, is active and shows page 1: it was navigated back, by the previous
\* button or by a page input of 1 or less.
C14_Witness ==
    /\ ActiveReady
    /\ loadedPdfs[activeFileId].doc.numPages = 3
    /\ loadedPdfs[activeFileId].initialPage = 4
    /\ totalPages = 3
    /\ currentPage = 1

\* C15: starting from 1.0, the zoom factor stays within [0.5, 3.0] under
\* every sequence of zoomIn and zoomOut, which move it by 0.25: a zoomIn
\* at 3.0 leaves it at 3.0 and a zoomOut at 0.5 leaves it at 0.5.
C15_ZoomWithinLimits ==
    /\ [](scale >= 50 /\ scale <= 300)
    /\ [][/\ ZoomIn => scale' = (IF scale = 300 THEN 300 ELSE scale + 25)
          /\ ZoomOut => scale' = (IF scale = 50 THEN 50 ELSE scale - 25)
         ]_vars

\* The zoom factor has been raised from 1.0 to the upper limit 3.0, and
\* the zoom buttons are there to be clicked again.
C15_Witness ==
    /\ scale = 300
    /\ ToolbarShown

\* The open documents: the files that have an entry in loadedPdfs.
OpenDocuments == { f \in FileIds : loadedPdfs[f] # Null }

\* C16 as stated: whenever a document is open, activeFileId is non-null
\* and names an open document.
C16_Original ==
    OpenDocuments # {} => activeFileId \in OpenDocuments

\* C16: at most one open document is active.  activeFileId is null or
\* names an open document, and once it names one it never becomes null
\* again; whenever some open document is Ready, activeFileId is non-null.
C16_AtMostOneActive ==
    /\ [](activeFileId = NoFile \/ activeFileId \in OpenDocuments)
    /\ []((\E f \in OpenDocuments : DocState(loadedPdfs[f]) = "ready")
            => activeFileId # NoFile)
    /\ [][activeFileId # NoFile => activeFileId' # NoFile]_vars

\* Of two listed files, neither retried, the first has Failed and the
\* second is Ready and active.
C16_Witness ==
    \E f, g \in FileIds :
        /\ Len(files) = 2
        /\ files[1].fileId = f /\ files[2].fileId = g
        /\ DocState(loadedPdfs[f]) = "failed"
        /\ DocState(loadedPdfs[g]) = "ready"
        /\ activeFileId = g
        /\ retries[f] = 0 /\ retries[g] = 0

\* The entries of a file list that name the file.
EntriesFor(list, f) == { i \in 1..Len(list) : list[i].fileId = f }

\* The FETCH_PDF messages for the file that are with the service worker.
RequestsFor(slots, f) ==
    { s \in Slots : slots[s].pc # "free" /\ slots[s].msg.payload.fileId = f }

\* C17: a LOAD_PDF for a file that is in the file list adds no entry and
\* sends no FETCH_PDF: it makes the file the active tab and, when its
\* document is Ready, shows the requested page clamped to 1..pageCount.  A
\* LOAD_PDF for a file that is not in the list adds exactly one entry and
\* sends exactly one FETCH_PDF, for that file.  No file is listed twice.
C17_LoadPdfReusesEntry ==
    /\ [](\A f \in FileIds : Cardinality(EntriesFor(files, f)) <= 1)
    /\ [][\A f \in FileIds, p \in Pages :
            HandleLoadPdf(f, p)
            => IF InFiles(files, f)
                   THEN /\ files' = files
                        /\ loadedPdfs' = loadedPdfs
                        /\ fetchSent' = fetchSent
                        /\ req' = req
                        /\ activeFileId' = f
                        /\ DocState(loadedPdfs[f]) = "ready"
                           => /\ totalPages' = loadedPdfs[f].doc.numPages
                              /\ currentPage' =
                                    NearestPage(p, loadedPdfs[f].doc.numPages)
               ELSE /\ Len(files') = Len(files) + 1
                    /\ Cardinality(EntriesFor(files', f)) = 1
                    /\ \A g \in FileIds \ {f} :
                          /\ EntriesFor(files', g) = EntriesFor(files, g)
                          /\ loadedPdfs'[g] = loadedPdfs[g]
                          /\ fetchSent'[g] = fetchSent[g]
                          /\ RequestsFor(req', g) = RequestsFor(req, g)
                    /\ fetchSent'[f] = fetchSent[f] + 1
                    /\ Cardinality(RequestsFor(req', f))
                          = Cardinality(RequestsFor(req, f)) + 1
         ]_vars

\* A file listed with page 1 and fetched once is Ready and active and
\* shows page 3 of 3: a LOAD_PDF for page 4 has reused its entry.
C17_Witness ==
    \E f \in FileIds :
        /\ activeFileId = f
        /\ DocState(loadedPdfs[f]) = "ready"
        /\ loadedPdfs[f].initialPage = 1
        /\ loadedPdfs[f].doc.numPages = 3
        /\ currentPage = 3
        /\ fetchSent[f] = 1
        /\ Cardinality(EntriesFor(files, f)) = 1

\* The entries of all files but f are left as they are.
OthersKept(f) == \A g \in FileIds \ {f} : loadedPdfs'[g] = loadedPdfs[g]

\* A step of the load of file f alone: its start by LOAD_PDF or by Retry,
\* or its fetchPdfForFile invocation going on after an await.
OwnLoadStep(f) ==
    /\ calls'[f] # calls[f]
    /\ calls[f].pc # "idle" \/ calls'[f].caller \in { "loadPdf", "retry" }

\* C18: selecting the tab of F changes activeFileId, currentPage and
\* totalPages and nothing else: every entry of loadedPdfs, the file list
\* and the zoom are left as they are.  The load of F, its success, its
\* failure and its retry change no entry but F's, and no step that is not
\* part of the load of F (tab selection, LOAD_PDF for a listed file,
\* navigation, zoom, the load of another file, a file list that does not
\* add F) changes the entry of F.
C18_TabsKeepTheirState ==
    [][\A f \in FileIds :
         /\ SelectFile(f)
            => /\ loadedPdfs' = loadedPdfs
               /\ files' = files
               /\ scale' = scale
               /\ calls' = calls /\ fetchSent' = fetchSent /\ retries' = retries
               /\ req' = req
               /\ activeFileId' = f
         /\ OwnLoadStep(f) => OthersKept(f)
         /\ calls'[f] = calls[f] => loadedPdfs'[f] = loadedPdfs[f]
      ]_vars

\* The zoom was changed while a Ready document was shown; the active tab
\* is now a file that was listed, fetched once and has Failed, and the
\* other file still has its decoded document and its data.
C18_Witness ==
    \E f, g \in FileIds :
        /\ f # g
        /\ activeFileId = f
        /\ DocState(loadedPdfs[f]) = "failed"
        /\ fetchSent[f] = 1 /\ retries[f] = 0
        /\ scale # 100
        /\ DocState(loadedPdfs[g]) = "ready"
        /\ loadedPdfs[g].doc.numPages = 3
        /\ loadedPdfs[g].data # NoString

(***************************************************************************)
(* Properties of the single-document sidebar                               *)
(***************************************************************************)

\* The loadPdf invocation in place i is for a file that a later loadPdf
\* has replaced as the current one.
Replaced(i) ==
    /\ loadPdfCalls[i].pc # "idle"
    /\ loadPdfCalls[i].fileId # singleDoc.currentFileId

\* What the single-document sidebar displays.
Displayed(doc) ==
    << doc.pdfDoc, doc.totalPages, doc.fileName, doc.isLoading, doc.error >>

\* C19 as stated: when loadPdf(A) was followed by loadPdf(B) before A's
\* response arrived, no step of A's invocation (its response, its decoding,
\* its rendering) changes the displayed document, page count, file name,
\* loading flag or error, and once no invocation is pending a displayed
\* document is the one decoded from the bytes of the current file B.
C19_Original ==
    /\ [][\A i \in Loads :
            (Replaced(i) /\ loadPdfCalls'[i] # loadPdfCalls[i])
            => Displayed(singleDoc') = Displayed(singleDoc)]_vars
    /\ []((/\ \A i \in Loads : loadPdfCalls[i].pc = "idle"
           /\ singleDoc.pdfDoc # Null)
          => singleDoc.pdfDoc.data = FileBody(singleDoc.currentFileId))

\* Both responses have arrived, the current file is b, and the sidebar
\* shows the document decoded from the bytes of file a under the name the
\* response for a carried, not loading and without an error.
C19_Witness ==
    /\ \A i \in Loads : loadPdfCalls[i].pc = "idle"
    /\ singleDoc.currentFileId = "b"
    /\ singleDoc.pdfDoc # Null
    /\ singleDoc.pdfDoc.data = FileBody("a")
    /\ singleDoc.fileName = << "d", "o", "c", ".", "p", "d", "f" >>
    /\ ~singleDoc.isLoading
    /\ singleDoc.error = NoString

(***************************************************************************)
(* Properties of the periodic sweep                                        *)
(***************************************************************************)

\* The step is a run of the setInterval callback.
SweepRuns == nextSweep' # nextSweep

\* C20: the sweep runs every 60 seconds; each run removes the entries
\* older than 5 minutes and leaves every other entry as it is.  Hence no
\* entry is in the cache later than 6 minutes after its timestamp: at 6
\* minutes the sweep that removes it is due, and time does not pass before
\* it has run, whether or not a request reads the entry.
C20_SweepRemovesExpired ==
    /\ [][SweepRuns
          => /\ now >= nextSweep
             /\ nextSweep' = now + 1
             /\ now' = now
             /\ \A f \in FileIds :
                   pdfCache'[f] = IF /\ pdfCache[f] # Null
                                     /\ now - pdfCache[f].timestamp > 5
                                      THEN Null
                                  ELSE pdfCache[f]]_vars
    /\ [][now' # now => now < nextSweep /\ now' = now + 1]_vars
    /\ [](\A f \in FileIds :
            pdfCache[f] # Null
            => /\ now - pdfCache[f].timestamp <= 6
               /\ now - pdfCache[f].timestamp = 6 => now >= nextSweep)

\* Two files were fetched a minute apart.  The sweep that has just run
\* has removed the entry of the one fetched 6 minutes ago and has left
\* the entry of the other, whose age is exactly 5 minutes.
C20_Witness ==
    \E s, t \in Slots :
        /\ Succeeded(req[s]) /\ req[s].netCalls = 1
        /\ Succeeded(req[t]) /\ req[t].netCalls = 1
        /\ pdfCache[FileOf(req[s])] = Null
        /\ pdfCache[FileOf(req[t])] # Null
        /\ now - pdfCache[FileOf(req[t])].timestamp = 5
        /\ now = 6
        /\ nextSweep = 7

\* C21: sweep runs interleave safely with FETCH_PDF handlers suspended at
\* their awaits.  A sweep run leaves every entry of age up to 5 minutes
\* and every handler as they are.  A handler whose fetch succeeds stores
\* the fetched bytes with the current time and answers with them, whether
\* or not a sweep has removed the entry it had read before the fetch; the
\* entry it stored is in the cache for the next 5 minutes.  A handler that
\* answers without a fetch answers from the entry that is in the cache at
\* that moment.
C21_SweepInterleavesSafely ==
    /\ [][SweepRuns
          => /\ req' = req
             /\ \A f \in FileIds :
                   (pdfCache[f] # Null /\ now - pdfCache[f].timestamp <= 5)
                   => pdfCache'[f] = pdfCache[f]]_vars
    /\ [][\A s \in Slots :
             /\ (FetchCompletes(s) /\ Succeeded(req'[s]))
                => /\ pdfCache'[FileOf(req[s])] # Null
                   /\ pdfCache'[FileOf(req[s])].data = req[s].response.bytes
                   /\ pdfCache'[FileOf(req[s])].timestamp = now
                   /\ req'[s].responses[1].data =
                         arrayBufferToBase64(req[s].response.bytes)
             /\ (Handles(s) /\ req'[s].pc = "done" /\ Succeeded(req'[s]))
                => /\ pdfCache[FileOf(req[s])] # Null
                   /\ req'[s].cached = pdfCache[FileOf(req[s])]
                   /\ req'[s].responses[1].data =
                         arrayBufferToBase64(pdfCache[FileOf(req[s])].data)
                   /\ pdfCache' = pdfCache]_vars
    /\ [](\A s \in Slots :
            (/\ req[s].pc = "done" /\ Succeeded(req[s])
             /\ req[s].netCalls = 1 /\ now <= 5)
            => pdfCache[FileOf(req[s])] # Null)

\* A handler read an expired entry and is suspended at its fetch; the
\* sweep has run meanwhile and has removed that entry.
C21_Witness ==
    \E s \in Slots :
        /\ req[s].pc = "fetch"
        /\ req[s].cached # Null
        /\ now - req[s].cached.timestamp > 5
        /\ pdfCache[FileOf(req[s])] = Null
        /\ nextSweep = now + 1

(***************************************************************************)
(* Properties of the settings and of the connectivity test                 *)
(***************************************************************************)

IsTest(r) == r.msg # Undefined /\ r.msg.type = "TEST_CONNECTION"

\* The step is one of the TEST_CONNECTION handler of slot s: the message is
\* delivered, its probe or its body read settles, its response is collected.
TestStep(s) ==
    /\ req'[s] # req[s]
    /\ IsTest(req[s]) \/ IsTest(req'[s])

\* The step starts or ends the popup's testConnection.
PopupTestStep == popup'.isTesting # popup.isTesting

\* C22: no step of a connectivity test (the popup's click, the delivery of
\* TEST_CONNECTION, the settling of the probe and of its body read, the
\* arrival of the response in the popup) changes the persisted settings or
\* the PDF cache.  The response is {success: true} exactly when the probe
\* settled with a 2xx status, and a failure object otherwise (non-2xx
\* status, unreadable body, transport error); the popup shows success
\* only for a success response, and for every success response it
\* receives.
C22_TestHasNoSideEffects ==
    /\ [][(PopupTestStep \/ \E s \in Slots : TestStep(s))
          => (config' = config /\ pdfCache' = pdfCache)]_vars
    /\ [][\A s \in Slots, outcome \in ProbeOutcomes :
             (IsTest(req[s]) /\ ProbeSettled(s, outcome))
             => /\ Ok(outcome) /\ outcome.kind = "response"
                   <=> (req'[s].pc = "done" /\ Succeeded(req'[s]))
                /\ req'[s].pc = "done" => (Succeeded(req'[s]) \/ Failed(req'[s]))
                /\ req'[s].pc # "done"
                   => (req'[s].pc = "probeBody" /\ req'[s].response = outcome)]_vars
    /\ [][\A s \in Slots :
             (req[s].pc = "probeBody" /\ req'[s] # req[s])
             => /\ ~Ok(req[s].response)
                /\ req'[s].pc = "done"
                /\ Failed(req'[s])]_vars
    /\ [][(popup.isTesting /\ ~popup'.isTesting)
          => LET answers == req[popup.testSlot].responses IN
             /\ popup'.status.type \in {"success", "error"}
             /\ popup'.status.type = "success"
                   => (answers # << >> /\ answers[1].success)
             /\ (answers # << >> /\ answers[1].success
                    /\ popup'.status.type # "success")
                   => popup'.status.message = << "Failed to test connection" >>
          ]_vars

\* With settings saved and a document in the cache, a test has ended with
\* the popup showing success, and settings and cache are still there.
C22_Witness ==
    /\ config = BriinkConfig(ApiKey, Workspace, TRUE)
    /\ pdfCache["a"] # Null
    /\ pdfCache["a"].data = FileBody("a")
    /\ popup.status = Status("success", << "Connection successful!" >>)
    /\ ~popup.isTesting

IsGetConfig(r) == r.msg # Undefined /\ r.msg.type = "GET_CONFIG"

\* C23: a GET_CONFIG request is answered once its storage read settles,
\* with exactly one response: the persisted settings record when the read
\* succeeds and a record is stored, null when nothing is stored or the read
\* fails.  The response is never a {success: false} object and the
\* listener's catch block is never entered.
C23_GetConfigNeverThrows ==
    /\ \A s \in Slots :
          (IsGetConfig(req[s]) /\ req[s].pc = "config")
          ~> (IsGetConfig(req[s]) /\ req[s].pc = "done"
                 /\ Len(req[s].responses) = 1)
    /\ [][\A s \in Slots, storageFails \in BOOLEAN :
             (IsGetConfig(req[s]) /\ ConfigSettled(s, storageFails))
             => /\ req'[s].pc = "done"
                /\ req'[s].responses =
                      << IF storageFails \/ config = Null THEN Null ELSE config >>
          ]_vars
    /\ [](\A s \in Slots :
            (IsGetConfig(req[s]) /\ req[s].pc \in {"config", "done"})
            => /\ ~req[s].caught
               /\ req[s].pc = "done"
                  => /\ Len(req[s].responses) = 1
                     /\ req[s].responses[1] \in Configs
                     /\ req[s].responses[1] \in {Null, config}
                     /\ "success" \notin DOMAIN req[s].responses[1])

\* Settings are stored; one GET_CONFIG was answered with them and another,
\* whose storage read failed, with null.
C23_Witness ==
    \E s, t \in Slots :
        /\ config # Null
        /\ IsGetConfig(req[s]) /\ req[s].pc = "done"
        /\ req[s].responses = << config >>
        /\ IsGetConfig(req[t]) /\ req[t].pc = "done"
        /\ req[t].responses = << Null >>

\* The record of the values the form holds, the workspace id being absent
\* when the input is empty.
FormValues ==
    [apiKey |-> popup.apiKey, apiBaseUrl |-> popup.apiBaseUrl,
     workspaceId |-> IF popup.workspaceId = << >> THEN NoString
                     ELSE popup.workspaceId,
     enabled |-> popup.enabled]

Shown == content.container /\ ~content.hidden

\* The step is a run of the storage.onChanged listener.
NoticeHandled == Len(notices') < Len(notices)

\* C25 as stated: from a change notification with enabled = false until
\* the next one with enabled = true the sidebar container is hidden,
\* whatever navigation or source-document click happens in between; a
\* notification with enabled = true initializes the content script (on an
\* annotation queue page) if it was not initialized, and takes the class
\* "hidden" off the container otherwise.
C25_Original ==
    /\ [](content.lastEnabled = "disabled" => ~Shown)
    /\ [][(NoticeHandled /\ Head(notices).enabled)
          => IF ~content.isInitialized
                 THEN content.onQueuePage
                      => (content'.isInitialized /\ content'.container
                             /\ ~content'.hidden)
             ELSE ~content'.hidden]_vars

\* The settings stored say disabled, the content script has handled that
\* change and no other is pending, and the container is displayed.
C25_Witness ==
    /\ config # Null
    /\ ~config.enabled
    /\ notices = << >>
    /\ content.lastEnabled = "disabled"
    /\ content.container
    /\ ~content.hidden
    /\ content.onQueuePage

(***************************************************************************)
(* Properties of the download URL and of concurrent requests               *)
(***************************************************************************)

\* C26 as stated: a FETCH_PDF handled with an API key, enabled, and no
\* fresh cache entry issues a network fetch, to
\* {apiBaseUrl}/files/{fileId}/content when the settings have no workspace
\* id and to {apiBaseUrl}/workspaces/{workspaceId}/files/{fileId}/content
\* when they have one.
C26_Original ==
    [][\A s \in Slots :
         (/\ Handles(s)
          /\ SettingsUsable(req'[s].cfg)
          /\ ~(/\ pdfCache[FileOf(req[s])] # Null
               /\ now - pdfCache[FileOf(req[s])].timestamp < 5))
         => /\ req'[s].pc = "fetch"
            /\ req'[s].netCalls = 1
            /\ req'[s].url =
                  IF req'[s].cfg.workspaceId \in {NoString, << >>}
                      THEN req'[s].cfg.apiBaseUrl
                              \o << "/files/", FileOf(req[s]), "/content" >>
                  ELSE req'[s].cfg.apiBaseUrl \o << "/workspaces/" >>
                          \o req'[s].cfg.workspaceId
                          \o << "/files/", FileOf(req[s]), "/content" >>
      ]_vars

\* A FETCH_PDF handled with an API key, enabled and no workspace id was
\* answered with "Workspace ID is required" without any network fetch,
\* while a request handled with a workspace id went to the workspace URL.
C26_Witness ==
    \E s, t \in Slots :
        /\ req[s].pc = "done"
        /\ SettingsUsable(req[s].cfg)
        /\ req[s].cfg.workspaceId = NoString
        /\ req[s].netCalls = 0
        /\ req[s].responses = << WorkspaceRequired >>
        /\ req[t].pc = "fetch"
        /\ req[t].url = BaseUrl \o << "/workspaces/" >> \o Workspace
                           \o << "/files/", FileOf(req[t]), "/content" >>

\* The handler of slot s has issued its fetch for the file of its FETCH_PDF
\* request and awaits the response or its body.
Downloading(s) == IsFetchPdf(req[s]) /\ req[s].pc \in {"fetch", "body"}

LoadingDoc(f) == loadedPdfs[f] # Null /\ loadedPdfs[f].loading

\* The step in which the fetchPdfForFile call of f gets what its
\* sendMessage settled with.
Answered(f) ==
    /\ calls[f].pc = "sent"
    /\ req[calls[f].slot].pc = "done"
    /\ req'[calls[f].slot] # req[calls[f].slot]

\* C29: every document that is loading eventually is not, the promises
\* settling; a rejected or undefined sendMessage result and a failure
\* response end the call with the entry failed (loading false, an error, no
\* document), only a success response goes on to the decoding, and the
\* decoding ends with the entry ready or, on a decode error, failed.
C29_LoadingEnds ==
    /\ \A f \in FileIds : LoadingDoc(f) ~> ~LoadingDoc(f)
    /\ [][\A f \in FileIds :
            /\ Answered(f)
               => /\ LoadingDoc(f)
                  /\ calls'[f].pc \in {"idle", "decode"}
                  /\ calls'[f].pc = "decode"
                        => /\ LoadingDoc(f)'
                           /\ Succeeded(req[calls[f].slot])
                  /\ calls'[f].pc = "idle"
                        => /\ ~LoadingDoc(f)'
                           /\ loadedPdfs'[f].doc = Null
                           /\ ~Falsy(loadedPdfs'[f].error)
                  /\ ~Succeeded(req[calls[f].slot]) => calls'[f].pc = "idle"
            /\ (calls[f].pc = "decode" /\ calls'[f].pc # "decode")
               => /\ LoadingDoc(f)
                  /\ ~LoadingDoc(f)'
                  /\ (loadedPdfs'[f].doc = Null) = ~Falsy(loadedPdfs'[f].error)
         ]_vars

\* One document has failed on a rejected sendMessage and is not loading,
\* the other one has been decoded and is not loading.
C29_Witness ==
    \E f, g \in FileIds :
        /\ f # g
        /\ loadedPdfs[f] # Null /\ ~loadedPdfs[f].loading
        /\ loadedPdfs[f].error = ChannelClosed
        /\ loadedPdfs[g] # Null /\ ~loadedPdfs[g].loading
        /\ loadedPdfs[g].doc # Null
        /\ calls[f].pc = "idle" /\ calls[g].pc = "idle"

(***************************************************************************)
(* Properties of the page shown                                            *)
(***************************************************************************)

\* C30 as stated: whenever the active document is Ready, totalPages is its
\* page count and currentPage is a page of it, 1 <= currentPage <=
\* totalPages, whatever page the LOAD_PDF messages named.
C30_Original ==
    ActiveReady
        => /\ totalPages = loadedPdfs[activeFileId].doc.numPages
           /\ AtLeast(currentPage, 1)
           /\ AtMost(currentPage, totalPages)

\* A document opened by a LOAD_PDF without a page is Ready and active, its
\* page count is shown, and the current page is NaN.
C30_Witness ==
    /\ ActiveReady
    /\ loadedPdfs[activeFileId].initialPage = UndefinedPage
    /\ totalPages = loadedPdfs[activeFileId].doc.numPages
    /\ currentPage = NaN

(***************************************************************************)
(* Properties of the zoom factor with fit-width                            *)
(***************************************************************************)

AllSettled == \A f \in FileIds : calls[f].pc = "idle"

\* C32 as stated: once every load has settled, the active document is the
\* one named by the LOAD_PDF received last (the last file of the list,
\* where only LOAD_PDF messages for new files arrive).
C32_Original ==
    (AllSettled /\ files # << >>)
        => activeFileId = files[Len(files)].fileId

\* LOAD_PDF for one file and then for another have both been loaded and
\* decoded, and the active document is the one named first.
C32_Witness ==
    /\ AllSettled
    /\ Len(files) = 2
    /\ activeFileId = files[1].fileId
    /\ \A f \in FileIds : DocState(loadedPdfs[f]) = "ready"

(***************************************************************************)
(* Properties of the content script's initialization                       *)
(***************************************************************************)

\* The step runs createSidebar, setupMessageListeners or observePageChanges.
SetsUp ==
    \/ content'.created # content.created
    \/ content'.listeners # content.listeners
    \/ content'.observers # content.observers

\* C34: createSidebar, setupMessageListeners and observePageChanges have
\* each run at most once, whatever initialize calls and settings-change
\* notifications there were; they run together, in a call of initialize
\* made while the script is not initialized and the page is an annotation
\* queue page, and never while it is not such a page.
C34_InitializeIdempotent ==
    /\ [](/\ content.created <= 1
          /\ content.listeners <= 1
          /\ content.observers <= 1)
    /\ [][SetsUp
            => /\ ~content.isInitialized
               /\ content'.isInitialized
               /\ content'.onQueuePage
               /\ content'.created = content.created + 1
               /\ content'.listeners = content.listeners + 1
               /\ content'.observers = content.observers + 1
         ]_vars

\* The content script is initialized, DOMContentLoaded has fired, a
\* settings change with enabled = true has been handled, and each of the
\* three functions has run once.
C34_Witness ==
    /\ content.listening
    /\ ~content.domPending
    /\ content.lastEnabled = "enabled"
    /\ content.isInitialized
    /\ content.created = 1
    /\ content.listeners = 1
    /\ content.observers = 1

\* C33 as stated: the content script of content/content.ts creates at most
\* one sidebar container, installs at most one message listener and at
\* most one page observer.
C33_Original ==
    /\ oldContent.created <= 1
    /\ oldContent.listeners <= 1
    /\ oldContent.observers <= 1

\* Two initialize calls that overlapped at their GET_CONFIG have both set
\* the sidebar up.
C33_Witness ==
    /\ oldContent.isInitialized
    /\ oldContent.pending = {}
    /\ oldContent.created = 2
    /\ oldContent.listeners = 2
    /\ oldContent.observers = 2

\* C35: in every state of the multi-tab sidebar no two entries of the file
\* list have the same fileId, every listed file has an entry in
\* loadedPdfs, and a non-null activeFileId names an entry of loadedPdfs.
\* The FETCH_PDF messages a file has caused are one for its listing and
\* one for each retry, however many LOAD_PDF and BRIINK_FILES_LIST
\* messages have named it.
C35_ListedOnceFetchedOnce ==
    /\ \A i, j \in 1..Len(files) : files[i].fileId = files[j].fileId => i = j
    /\ \A i \in 1..Len(files) : loadedPdfs[files[i].fileId] # Null
    /\ activeFileId # NoFile => loadedPdfs[activeFileId] # Null
    /\ \A f \in FileIds :
          fetchSent[f] = IF InFiles(files, f) THEN 1 + retries[f] ELSE 0

\* A LOAD_PDF has listed a file and a BRIINK_FILES_LIST another one while
\* the first was loading: each has been fetched once and both FETCH_PDF
\* are with the service worker.
C35_Witness ==
    \E f, g \in FileIds :
        /\ f # g
        /\ Len(files) = 2
        /\ files[1].fileId = f /\ files[2].fileId = g
        /\ calls[f].pc = "sent" /\ calls[f].caller = "loadPdf"
        /\ calls[g].pc = "sent" /\ calls[g].caller = "filesList"
        /\ fetchSent[f] = 1 /\ fetchSent[g] = 1
        /\ Cardinality(RequestsFor(req, f)) = 1
        /\ Cardinality(RequestsFor(req, g)) = 1

\* The handler of slot s reads the settings, finds them usable, and finds
\* a fresh cache entry for the file of its FETCH_PDF.
ServesHit(s) ==
    /\ req[s].pc = "config"
    /\ req'[s].pc # "config"
    /\ req[s].msg.type = "FETCH_PDF"
    /\ req'[s].cfg # Null
    /\ ~Falsy(req'[s].cfg.apiKey)
    /\ req'[s].cfg.enabled
    /\ CacheHit(req[s].msg.payload.fileId)

\* C37: a FETCH_PDF that finds usable settings and a fresh cache entry for
\* its file is answered, without a network call, with the entry's bytes in
\* base64 and the entry's file name, whatever the workspaceId, apiBaseUrl
\* and apiKey of the settings are, an empty workspaceId included; the cache
\* is left as it is.
C37_HitIgnoresSettings ==
    [][\A s \in Slots :
         ServesHit(s)
         => LET entry == pdfCache[req[s].msg.payload.fileId] IN
            /\ req'[s].pc = "done"
            /\ req'[s].netCalls = 0
            /\ req'[s].responses =
                  << [success |-> TRUE,
                      data |-> arrayBufferToBase64(entry.data),
                      fileName |-> entry.fileName] >>
            /\ pdfCache' = pdfCache
      ]_vars

\* A file was downloaded and cached; the workspace id was then removed from
\* the settings, and a later FETCH_PDF for the file has been answered from
\* the cache under those settings.
C37_Witness ==
    \E s \in Slots :
        /\ req[s].pc = "done"
        /\ req[s].msg.type = "FETCH_PDF"
        /\ req[s].cfg = BriinkConfig(ApiKey, NoString, TRUE)
        /\ req[s].netCalls = 0
        /\ req[s].cached # Null
        /\ req[s].responses # << >>
        /\ req[s].responses[1].success
        /\ req[s].responses[1].data = arrayBufferToBase64(req[s].cached.data)

\* The types the listener's switch has a case for.
HandledTypes == { "GET_CONFIG", "TEST_CONNECTION", "FETCH_PDF" }

UnknownResponse == [success |-> FALSE, error |-> << "Unknown message type" >>]

\* C39: a message whose type is none of GET_CONFIG, TEST_CONNECTION and
\* FETCH_PDF (SAVE_CONFIG and OPEN_PDF_VIEWER included) is answered in the
\* step that delivers it, with {success: false, error: 'Unknown message
\* type'}; the step changes neither the settings nor the cache, issues no
\* network call and does not run the catch block, and no further response
\* to the message follows.
C39_UnknownTypeAnswered ==
    /\ [][\A s \in Slots :
            (req[s].pc = "free" /\ req'[s].pc # "free"
                /\ req'[s].msg.type \notin HandledTypes)
            => /\ req'[s].pc = "done"
               /\ req'[s].responses = << UnknownResponse >>
               /\ req'[s].netCalls = 0
               /\ ~req'[s].caught
               /\ config' = config
               /\ pdfCache' = pdfCache
         ]_vars
    /\ [][\A s \in Slots :
            (req[s].pc = "done" /\ req[s].msg.type \notin HandledTypes)
            => \/ req'[s] = req[s]
               \/ req'[s].pc = "free"
         ]_vars

\* A SAVE_CONFIG and an OPEN_PDF_VIEWER message have both been answered
\* with the unknown-type response.
C39_Witness ==
    \E s, t \in Slots :
        /\ req[s].pc = "done" /\ req[s].msg.type = "SAVE_CONFIG"
        /\ req[t].pc = "done" /\ req[t].msg.type = "OPEN_PDF_VIEWER"
        /\ req[s].responses = << UnknownResponse >>
        /\ req[t].responses = << UnknownResponse >>

\* The content script holds the file in collectedFiles.
Collected(f) == InFiles(content.collectedFiles, f)

\* C36: once the sidebar has mounted and announced BRIINK_SIDEBAR_READY,
\* every file the content script holds in its collection is eventually in
\* the sidebar's file list, unless a page navigation has cleared the
\* collection first; this includes the files clicked before the sidebar
\* had added its message listener.
C36_CollectedFilesArrive ==
    \A f \in FileIds :
        (content.mounted /\ Collected(f)) ~> (InFiles(files, f) \/ ~Collected(f))

\* A file was clicked before the sidebar had mounted, its LOAD_PDF was
\* dispatched to no one, and the sidebar has listed and started to fetch it
\* from the list sent in answer to BRIINK_SIDEBAR_READY.
C36_Witness ==
    \E f \in FileIds :
        /\ content.mounted
        /\ ~content.ready
        /\ content.inbox = << >>
        /\ Collected(f)
        /\ InFiles(files, f)
        /\ calls[f].pc = "sent"
        /\ calls[f].caller = "filesList"
        /\ activeFileId = NoFile

\* The SHOW_CONFIG_MESSAGE messages among the posted ones.
NoticesIn(inbox) ==
    Cardinality({ i \in 1..Len(inbox) : inbox[i].type = "SHOW_CONFIG_MESSAGE" })

\* C38: needsConfig never goes back to false, whatever message, file load
\* or settings change follows.  It becomes true only in a step in which
\* the sidebar's listener handles a SHOW_CONFIG_MESSAGE, and the content
\* script posts that message only at the end of initialize, when the
\* settings its GET_CONFIG has read are absent, not enabled or without an
\* API key.
C38_NoticeStays ==
    /\ [][needsConfig => needsConfig']_vars
    /\ [][(~needsConfig /\ needsConfig')
            => /\ content.mounted
               /\ content.inbox # << >>
               /\ Head(content.inbox).type = "SHOW_CONFIG_MESSAGE"
               /\ content'.inbox = Tail(content.inbox)
         ]_vars
    /\ [][((~content.configMessage /\ content'.configMessage)
              \/ NoticesIn(content'.inbox) > NoticesIn(content.inbox))
            => /\ content.slot # 0
               /\ content'.slot = 0
               /\ LET read == req[content.slot].cfg IN
                  read = Null \/ ~read.enabled \/ Falsy(read.apiKey)
         ]_vars

\* The notice is up although the settings have since been completed and
\* the clicked document is Ready and active.
C38_Witness ==
    /\ needsConfig
    /\ config = BriinkConfig(ApiKey, Workspace, TRUE)
    /\ notices = << >>
    /\ activeFileId = "a"
    /\ DocState(loadedPdfs["a"]) = "ready"
====
